---- MODULE Spec2Model ----
(***************************************************************************)
(* Verification model of the N-body gravitational integrator listed in     *)
(* src/simulations/mechanics/pendulum/README.md (gravitational_nbody.jl):  *)
(* the force kernel accelerations!, the energy diagnostic total_energy,    *)
(* the velocity-Verlet stepper vv_step! and the driver simulate!.          *)
(*                                                                         *)
(* Numbers.  The program computes in Float64.  It applies only +, -, *,    *)
(* one reciprocal and one square root to its floating-point values and     *)
(* never compares two of them, so it is a program over any arithmetic      *)
(* that offers these operations.  The model runs it under two:             *)
(*   arith = "float"  binary floating point with a significand of Prec     *)
(*                    bits, round-to-nearest-even after every operation    *)
(*                    (IEEE-754 with the significand shortened from 53     *)
(*                    bits and an unbounded exponent).  A value is the     *)
(*                    pair <<m, e>> standing for m * 2^e, m odd or 0.      *)
(*   arith = "exact"  arithmetic without rounding: the prime field of      *)
(*                    integers modulo Modulus, in which +, -, * and the    *)
(*                    reciprocal are exact.  A value is <<r, 0>>.          *)
(* Statements the specification makes "in exact arithmetic" are read in    *)
(* the second; everything else is checked in both.                         *)
(***************************************************************************)
EXTENDS Integers, Sequences, FiniteSets, TLC

VARIABLES arith, bodies, a, dt, nsteps, output_every, k, t,
          times, energies, samples, pc, bodies0, hist, ncalls,
          sim, voltageSlider, resistanceSlider, page,
          wheel, wheelClicks,
          buoy, buoyDrags, buoyInputs,
          wire

\* The variables of the N-body program (README.md of the pendulum demo).
nbodyVars == <<arith, bodies, a, dt, nsteps, output_every, k, t,
               times, energies, samples, pc, bodies0, hist, ncalls>>

\* The variables of the Ohm's-law demo (src/ohm/simulation.js).
ohmVars == <<sim, voltageSlider, resistanceSlider, page>>

\* The variables of Barlow's wheel (src/barlow_wheel/wheel.js); wheelClicks
\* counts the clicks on the run button.
wheelVars == <<wheel, wheelClicks>>

\* The variables of the buoyancy demo (buoyancy-sim/main.js): params, state,
\* the canvas and its parent in one record, the number of drags begun, and the
\* number of changes made to the inputs and the window.
buoyVars == <<buoy, buoyDrags, buoyInputs>>

\* The variable of the wire demo (class WireResistanceSimulation of
\* src/ohm/simulation.js): the object, its timers and the clocks.
wireVars == <<wire>>

\* The variables a program leaves alone: those of the other programs.
notNbodyVars == <<ohmVars, wheelVars, buoyVars, wireVars>>
notOhmVars == <<nbodyVars, wheelVars, buoyVars, wireVars>>
notWheelVars == <<nbodyVars, ohmVars, buoyVars, wireVars>>
notBuoyVars == <<nbodyVars, ohmVars, wheelVars, wireVars>>
notWireVars == <<nbodyVars, ohmVars, wheelVars, buoyVars>>

vars == <<nbodyVars, ohmVars, wheelVars, buoyVars, wireVars>>


(***************************************************************************)
(* Bounds of the model.                                                    *)
(***************************************************************************)
Prec == 3
MaxBodies == 3
MaxSteps == 3
MaxCadence == 2
MaxClicks == 2
MaxSpeed == 4000
MaxDrags == 1
MaxInputs == 1
MaxClock == 1001
MaxFrames == 57

Modulus == 2^7 - 1

(***************************************************************************)
(* A local variable of the program: Op applied to the value of v, which is *)
(* computed once, before the rest runs.                                    *)
(***************************************************************************)
Bind(v, Op(_)) == CHOOSE r \in { Op(x) : x \in {v} } : TRUE

Bind2(v, w, Op(_, _)) == CHOOSE r \in { Op(x, y) : x \in {v}, y \in {w} } : TRUE

(***************************************************************************)
(* Floating point with a Prec-bit significand.                             *)
(***************************************************************************)
Abs(n) == IF n < 0 THEN -n ELSE n

RECURSIVE BitLen(_)
BitLen(n) == IF n = 0 THEN 0 ELSE Bind(n \div 2, LAMBDA h : 1 + BitLen(h))

RECURSIVE FNorm(_, _)
FNorm(m, e) ==
    IF m = 0 THEN <<0, 0>>
    ELSE IF m % 2 = 0 THEN Bind2(m \div 2, e + 1, LAMBDA h, f : FNorm(h, f))
    ELSE <<m, e>>

\* The integer n >= 0 divided by 2^sh, rounded to the nearest integer, ties
\* to the even one.
RoundShift(n, sh) ==
    LET q    == n \div 2^sh
        rem  == n % 2^sh
        half == 2^(sh - 1)
    IN  IF rem > half \/ (rem = half /\ q % 2 = 1) THEN q + 1 ELSE q

\* m * 2^e rounded to Prec significant bits, ties to the even significand.
FRound(m, e) ==
    Bind2(m, BitLen(Abs(m)), LAMBDA n, L :
        IF L <= Prec THEN FNorm(n, e)
        ELSE Bind(RoundShift(Abs(n), L - Prec), LAMBDA r :
                 FNorm(IF n < 0 THEN -r ELSE r, e + L - Prec)))

MsbPos(x) == BitLen(Abs(x[1])) + x[2]

FAdd(x, y) ==
    IF x[1] = 0 THEN y
    ELSE IF y[1] = 0 THEN x
    ELSE Bind(MsbPos(x) - MsbPos(y), LAMBDA gap :
             IF gap > Prec + 1 THEN x
             ELSE IF -gap > Prec + 1 THEN y
             ELSE LET e == IF x[2] < y[2] THEN x[2] ELSE y[2]
                  IN  FRound(x[1] * 2^(x[2] - e) + y[1] * 2^(y[2] - e), e))

FMul(x, y) == FRound(x[1] * y[1], x[2] + y[2])

\* Correctly rounded quotient: Prec + 2 quotient bits and a sticky bit.
FDiv(x, y) ==
    IF x[1] = 0 THEN <<0, 0>>
    ELSE LET s   == 2 * Prec + 1
             n   == Abs(x[1]) * 2^s
             d   == Abs(y[1])
             q   == n \div d
             st  == IF n % d = 0 THEN 0 ELSE 1
             neg == (x[1] < 0) # (y[1] < 0)
             mag == 2 * q + st
         IN  FRound(IF neg THEN -mag ELSE mag, x[2] - y[2] - s - 1)

RECURSIVE ISqrt(_)
ISqrt(n) ==
    IF n < 2 THEN n
    ELSE Bind2(n, 2 * ISqrt(n \div 4), LAMBDA c, s :
             IF (s + 1) * (s + 1) <= c THEN s + 1 ELSE s)

\* Correctly rounded square root of a value >= 0.
FSqrt(x) ==
    IF x[1] = 0 THEN <<0, 0>>
    ELSE LET odd == x[2] % 2 # 0
             m1  == IF odd THEN 2 * x[1] ELSE x[1]
             e1  == IF odd THEN x[2] - 1 ELSE x[2]
             m2  == m1 * 4^(Prec + 1)
             e2  == e1 - 2 * (Prec + 1)
         IN  Bind(ISqrt(m2), LAMBDA r :
                 FRound(2 * r + (IF r * r = m2 THEN 0 ELSE 1), (e2 \div 2) - 1))

(***************************************************************************)
(* The prime field.                                                        *)
(***************************************************************************)
RECURSIVE PowMod(_, _)
PowMod(b, n) ==
    IF n = 0 THEN 1
    ELSE Bind(PowMod(b, n \div 2), LAMBDA h :
             IF n % 2 = 1 THEN (((h * h) % Modulus) * b) % Modulus
             ELSE (h * h) % Modulus)

\* Reciprocal in the field; 0 is mapped to 0.
XInv(r) ==
    IF r = 0 THEN 0
    ELSE CHOOSE y \in 1..(Modulus - 1) : (r * y) % Modulus = 1

\* A square root in the field.  Modulus = 3 (mod 4), so exactly one of r and
\* -r has a square root when r # 0; the root of -r is taken when r has none.
XSqrt(r) ==
    CHOOSE y \in 0..(Modulus - 1) :
        \/ (y * y) % Modulus = r
        \/ (y * y) % Modulus = (Modulus - r) % Modulus

(***************************************************************************)
(* The operations of the program's arithmetic.                             *)
(***************************************************************************)
Zero == <<0, 0>>

\* The number n * 2^e.
Num(n, e) ==
    IF arith = "exact"
    THEN LET r == ((n % Modulus) + Modulus) % Modulus
             p == IF e >= 0 THEN PowMod(2, e) ELSE XInv(PowMod(2, -e))
         IN  <<(r * p) % Modulus, 0>>
    ELSE FRound(n, e)

Add(x, y) ==
    Bind2(x, y, LAMBDA u, v :
        IF arith = "exact" THEN <<(u[1] + v[1]) % Modulus, 0>> ELSE FAdd(u, v))

Neg(x) ==
    Bind(x, LAMBDA u :
        IF arith = "exact" THEN <<(Modulus - u[1]) % Modulus, 0>>
        ELSE <<-u[1], u[2]>>)

Sub(x, y) == Add(x, Neg(y))

Mul(x, y) ==
    Bind2(x, y, LAMBDA u, v :
        IF arith = "exact" THEN <<(u[1] * v[1]) % Modulus, 0>> ELSE FMul(u, v))

Div(x, y) ==
    Bind2(x, y, LAMBDA u, v :
        IF arith = "exact" THEN <<(u[1] * XInv(v[1])) % Modulus, 0>>
        ELSE FDiv(u, v))

Sqrt(x) ==
    Bind(x, LAMBDA u : IF arith = "exact" THEN <<XSqrt(u[1]), 0>> ELSE FSqrt(u))

One == Num(1, 0)
Half == Num(1, -1)

\* A decimal literal of the source: bm * 2^be is its value to 24 significant
\* bits (rounded to Prec bits under "float"), dn * 10^dk the literal itself
\* (taken into the field under "exact").
Dec(bm, be, dn, dk) ==
    IF arith = "exact"
    THEN LET ten == IF dk >= 0 THEN PowMod(10, dk) ELSE XInv(PowMod(10, -dk))
         IN  <<((dn % Modulus) * ten) % Modulus, 0>>
    ELSE FRound(bm, be)

(***************************************************************************)
(* Configuration parameters.                                               *)
(***************************************************************************)
G == Dec(9618680, -57, 66743, -15)      \* 6.67430e-11
NDIM == 2
SOFTENING == Dec(1000, 0, 1, 3)         \* 1e3
DT == Num(1, 0)                         \* 1.0

(***************************************************************************)
(* Types and initialization.                                               *)
(***************************************************************************)
Body(m, x, v) == [m |-> m, x |-> x, v |-> v]

\* The vector <<Op(1), ..., Op(n)>>.
RECURSIVE Vec(_, _)
Vec(Op(_), n) == IF n = 0 THEN <<>> ELSE Append(Vec(Op, n - 1), Op(n))

\* zeros(Float64, NDIM)
zeros == Vec(LAMBDA d : Zero, NDIM)

(***************************************************************************)
(* accelerations!(a, bodies)                                               *)
(***************************************************************************)
\* for i in 1:N  fill!(a[i], 0.0)
ZeroFill(acc, bs) ==
    Vec(LAMBDA i : IF i <= Len(bs) THEN Vec(LAMBDA d : Zero, Len(acc[i]))
                                   ELSE acc[i],
        Len(acc))

\* rvec[d] = xj[d] - xi[d]
Rvec(xi, xj) == Vec(LAMBDA d : Sub(xj[d], xi[d]), NDIM)

\* r2 = 0.0; for d in 1:NDIM  r2 += rvec[d]*rvec[d]
RECURSIVE SumSq(_, _)
SumSq(rvec, d) ==
    IF d = 0 THEN Zero ELSE Add(SumSq(rvec, d - 1), Mul(rvec[d], rvec[d]))

\* No softening: eps2 = 0.
Eps2_none == Zero

\* eps2 = SOFTENING^2
Eps2 == Mul(SOFTENING, SOFTENING)

\* r2e = r2 + eps2; the divisor sqrt(r2e)*r2e
R3(rvec) ==
    Bind(Add(SumSq(rvec, NDIM), Eps2), LAMBDA r2e : Mul(Sqrt(r2e), r2e))

\* invr3 = inv(sqrt(r2e)*r2e).  The program's divisors are never 0 (C12); a
\* quotient by 0, Inf in IEEE-754, has no value here.
InvR3(rvec) == Div(One, R3(rvec))

\* The body of the pair loop for one pair i < j, with fac_j == -G*mj*invr3 in
\* place of -G*mi*invr3.
PairForce_samemass(acc, bs, i, j) ==
    Bind(Rvec(bs[i].x, bs[j].x), LAMBDA rvec :
    Bind(InvR3(rvec), LAMBDA invr3 :
    Bind2(Mul(Mul(G, bs[j].m), invr3), Mul(Mul(Neg(G), bs[j].m), invr3),
          LAMBDA fac_i, fac_j :
        [acc EXCEPT
            ![i] = Vec(LAMBDA d : Add(acc[i][d], Mul(fac_i, rvec[d])), NDIM),
            ![j] = Vec(LAMBDA d : Add(acc[j][d], Mul(fac_j, rvec[d])), NDIM)])))

\* The body of the pair loop for one pair i < j, with fac_j == G*mi*invr3 in
\* place of -G*mi*invr3.
PairForce_samesign(acc, bs, i, j) ==
    Bind(Rvec(bs[i].x, bs[j].x), LAMBDA rvec :
    Bind(InvR3(rvec), LAMBDA invr3 :
    Bind2(Mul(Mul(G, bs[j].m), invr3), Mul(Mul(G, bs[i].m), invr3),
          LAMBDA fac_i, fac_j :
        [acc EXCEPT
            ![i] = Vec(LAMBDA d : Add(acc[i][d], Mul(fac_i, rvec[d])), NDIM),
            ![j] = Vec(LAMBDA d : Add(acc[j][d], Mul(fac_j, rvec[d])), NDIM)])))

\* The body of the pair loop for one pair i < j:
\*   fac_i = G*mj*invr3; fac_j = -G*mi*invr3
\*   for d in 1:NDIM  a[i][d] += fac_i*rvec[d]; a[j][d] += fac_j*rvec[d]
PairForce(acc, bs, i, j) ==
    Bind(Rvec(bs[i].x, bs[j].x), LAMBDA rvec :
    Bind(InvR3(rvec), LAMBDA invr3 :
    Bind2(Mul(Mul(G, bs[j].m), invr3), Mul(Mul(Neg(G), bs[i].m), invr3),
          LAMBDA fac_i, fac_j :
        [acc EXCEPT
            ![i] = Vec(LAMBDA d : Add(acc[i][d], Mul(fac_i, rvec[d])), NDIM),
            ![j] = Vec(LAMBDA d : Add(acc[j][d], Mul(fac_j, rvec[d])), NDIM)])))

\* The pair loop with the inner range i+1:N-1 in place of i+1:N.
RECURSIVE PairLoop_short(_, _, _, _)
PairLoop_short(acc, bs, i, j) ==
    IF i > Len(bs) - 1 THEN acc
    ELSE IF j > Len(bs) - 1 THEN PairLoop_short(acc, bs, i + 1, i + 2)
    ELSE Bind(PairForce(acc, bs, i, j), LAMBDA nxt :
             PairLoop_short(nxt, bs, i, j + 1))

\* for i in 1:N-1, for j in i+1:N
RECURSIVE PairLoop(_, _, _, _)
PairLoop(acc, bs, i, j) ==
    IF i > Len(bs) - 1 THEN acc
    ELSE IF j > Len(bs) THEN PairLoop(acc, bs, i + 1, i + 2)
    ELSE Bind(PairForce(acc, bs, i, j), LAMBDA nxt :
             PairLoop(nxt, bs, i, j + 1))

\* The kernel without the zeroing loop.
accelerations_accumulate(acc, bs) ==
    Bind(acc, LAMBDA a0 : PairLoop(a0, bs, 1, 2))

accelerations(acc, bs) ==
    Bind(ZeroFill(acc, bs), LAMBDA a0 : PairLoop(a0, bs, 1, 2))

(***************************************************************************)
(* total_energy(bodies)                                                    *)
(***************************************************************************)
\* vi2 = 0.0; for d in 1:NDIM  vi2 += v[d]^2
RECURSIVE Vi2(_, _)
Vi2(v, d) == IF d = 0 THEN Zero ELSE Add(Vi2(v, d - 1), Mul(v[d], v[d]))

\* K = 0.0; for i in 1:N  K += 0.5*m*vi2
RECURSIVE Kinetic(_, _)
Kinetic(bs, i) ==
    IF i = 0 THEN Zero
    ELSE Add(Kinetic(bs, i - 1), Mul(Mul(Half, bs[i].m), Vi2(bs[i].v, NDIM)))

\* r2 = 0.0; for d in 1:NDIM  r2 += (xj[d]-xi[d])^2
RECURSIVE Dist2(_, _, _)
Dist2(xi, xj, d) ==
    IF d = 0 THEN Zero
    ELSE Add(Dist2(xi, xj, d - 1),
             Bind(Sub(xj[d], xi[d]), LAMBDA c : Mul(c, c)))

\* The divisor sqrt(r2 + eps2)
SoftDist(xi, xj) == Sqrt(Add(Dist2(xi, xj, NDIM), Eps2))

\* G*mi*mj / sqrt(r2 + eps2)
PairPotential(bi, bj) ==
    Div(Mul(Mul(G, bi.m), bj.m), SoftDist(bi.x, bj.x))

\* U -= G*mi*mj / sqrt(r2 + eps2), over the pairs i < j in loop order
RECURSIVE Potential(_, _, _, _)
Potential(U, bs, i, j) ==
    IF i > Len(bs) - 1 THEN U
    ELSE IF j > Len(bs) THEN Potential(U, bs, i + 1, i + 2)
    ELSE Bind(Sub(U, PairPotential(bs[i], bs[j])),
              LAMBDA U1 : Potential(U1, bs, i, j + 1))

\* The diagnostic with the velocities taken relative to the first body and
\* stored back.
total_energy_recentre(bs) ==
    Bind(Vec(LAMBDA i : [bs[i] EXCEPT
                 !.v = Vec(LAMBDA d : Sub(bs[i].v[d], bs[1].v[d]), NDIM)],
             Len(bs)),
         LAMBDA rel :
             [value  |-> Add(Kinetic(rel, Len(rel)), Potential(Zero, rel, 1, 2)),
              bodies |-> rel])

\* The call's result (return K + U) and the bodies as the call leaves them.
total_energy(bs) ==
    [value  |-> Add(Kinetic(bs, Len(bs)), Potential(Zero, bs, 1, 2)),
     bodies |-> bs]

(***************************************************************************)
(* vv_step!(bodies, a, dt)                                                 *)
(***************************************************************************)
\* The first loop with the two statements in the other order: the half-kick
\* first, the position from the kicked velocity.
KickDrift_kickfirst(b, ai, h) ==
    Bind(Vec(LAMBDA d : Add(b.v[d], Mul(Mul(Half, ai[d]), h)), NDIM), LAMBDA v1 :
        [b EXCEPT
            !.x = Vec(LAMBDA d : Add(b.x[d], Add(Mul(v1[d], h),
                                                 Mul(Mul(Mul(Half, ai[d]), h), h))),
                      NDIM),
            !.v = v1])

\* x[d] += v[d]*dt + 0.5*a[d]*dt*dt;  v[d] += 0.5*a[d]*dt   (per body, per d)
KickDrift(b, ai, h) ==
    [b EXCEPT
        !.x = Vec(LAMBDA d : Add(b.x[d], Add(Mul(b.v[d], h),
                                             Mul(Mul(Mul(Half, ai[d]), h), h))),
                  NDIM),
        !.v = Vec(LAMBDA d : Add(b.v[d], Mul(Mul(Half, ai[d]), h)), NDIM)]

\* The second loop with its write going to the field m.
Kick_m(b, ai, h) ==
    [b EXCEPT !.m = Add(b.m, Mul(Mul(Half, ai[1]), h))]

\* The second loop without the factor 0.5: a full kick.
Kick_full(b, ai, h) ==
    [b EXCEPT !.v = Vec(LAMBDA d : Add(b.v[d], Mul(ai[d], h)), NDIM)]

\* v[d] += 0.5*a[d]*dt
Kick(b, ai, h) ==
    [b EXCEPT !.v = Vec(LAMBDA d : Add(b.v[d], Mul(Mul(Half, ai[d]), h)), NDIM)]

\* The step with the kernel called before the first loop instead of after it.
vv_step_stale(bs, acc, h) ==
    Bind2(accelerations(acc, bs),
          Vec(LAMBDA i : KickDrift(bs[i], acc[i], h), Len(bs)),
          LAMBDA anew, moved :
              [bodies |-> Vec(LAMBDA i : Kick(moved[i], anew[i], h), Len(bs)),
               a      |-> anew,
               ncalls |-> 1])

\* The step with the accelerations recomputed from scratch at its top, before
\* the position update, and again after it: two calls of the kernel.
vv_step_recompute(bs, acc, h) ==
    Bind(accelerations(acc, bs), LAMBDA a0 :
    Bind(Vec(LAMBDA i : KickDrift(bs[i], a0[i], h), Len(bs)), LAMBDA moved :
    Bind(accelerations(a0, moved), LAMBDA anew :
        [bodies |-> Vec(LAMBDA i : Kick(moved[i], anew[i], h), Len(bs)),
         a      |-> anew,
         ncalls |-> 2])))

\* The three parts of the step in order: the first loop over the bodies, the
\* kernel on the moved bodies, the second loop.  ncalls is the number of
\* calls of accelerations! the step makes: the one of line 164.
vv_step(bs, acc, h) ==
    Bind(Vec(LAMBDA i : KickDrift(bs[i], acc[i], h), Len(bs)), LAMBDA moved :
    Bind(accelerations(acc, moved), LAMBDA anew :
        [bodies |-> Vec(LAMBDA i : Kick(moved[i], anew[i], h), Len(bs)),
         a      |-> anew,
         ncalls |-> 1]))

(***************************************************************************)
(* simulate!(bodies; dt, nsteps, output_every)                             *)
(***************************************************************************)
\* reduce(vcat, (reduce(vcat, b.x) for b in bodies)): a fresh vector holding
\* x1_1, ..., x1_NDIM, x2_1, ...; the reduction has no init and throws on an
\* empty collection of bodies.
flatten(bs) ==
    Vec(LAMBDA n : bs[((n - 1) \div NDIM) + 1].x[((n - 1) % NDIM) + 1],
        Len(bs) * NDIM)

\* a = [zeros(Float64, NDIM) for _ in 1:N]
ZeroBuffer(bs) == Vec(LAMBDA i : zeros, Len(bs))

\* The program's variables as one record.
State == [bodies |-> bodies, a |-> a, t |-> t, ncalls |-> ncalls,
          times |-> times, energies |-> energies, samples |-> samples]

\* The push with samples that share storage with the bodies' position
\* vectors: read after the push, every sample shows the current positions.
record_sample_live(st) ==
    Bind(total_energy(st.bodies), LAMBDA e :
        [st EXCEPT !.bodies   = e.bodies,
                   !.times    = Append(st.times, st.t),
                   !.energies = Append(st.energies, e.value),
                   !.samples  = Vec(LAMBDA i : flatten(e.bodies),
                                    Len(st.samples) + 1)])

\* push!(times, t); push!(energies, total_energy(bodies)); push!(samples, ...)
record_sample(st) ==
    Bind(total_energy(st.bodies), LAMBDA e :
        [st EXCEPT !.bodies   = e.bodies,
                   !.times    = Append(st.times, st.t),
                   !.energies = Append(st.energies, e.value),
                   !.samples  = Append(st.samples, flatten(e.bodies))])

\* One iteration of the loop with the sample taken when (k - 1) % K == 0.
loop_body_offbyone(st, h, kk, K) ==
    Bind(vv_step(st.bodies, st.a, h), LAMBDA s :
    Bind([st EXCEPT !.bodies = s.bodies, !.a = s.a, !.t = Add(st.t, h),
                    !.ncalls = st.ncalls + s.ncalls],
         LAMBDA s1 : IF (kk - 1) % K = 0 THEN record_sample(s1) ELSE s1))

\* One iteration of the loop with the step made on a copy of the bodies: the
\* buffer, the time and the sample follow the copy, the bodies stay.
loop_body_copy(st, h, kk, K) ==
    Bind(vv_step(st.bodies, st.a, h), LAMBDA s :
    Bind([st EXCEPT !.bodies = s.bodies, !.a = s.a, !.t = Add(st.t, h),
                    !.ncalls = st.ncalls + s.ncalls],
         LAMBDA s1 : [(IF kk % K = 0 THEN record_sample(s1) ELSE s1)
                          EXCEPT !.bodies = st.bodies]))

\* One iteration of the loop with t += dt inside the if: the time advances
\* only at the recorded steps.
loop_body_tinside(st, h, kk, K) ==
    Bind(vv_step(st.bodies, st.a, h), LAMBDA s :
    Bind([st EXCEPT !.bodies = s.bodies, !.a = s.a,
                    !.ncalls = st.ncalls + s.ncalls],
         LAMBDA s1 : IF kk % K = 0
                     THEN record_sample([s1 EXCEPT !.t = Add(st.t, h)])
                     ELSE s1))

\* One iteration k of the loop: vv_step!, t += dt, the sample every K steps.
loop_body(st, h, kk, K) ==
    Bind(vv_step(st.bodies, st.a, h), LAMBDA s :
    Bind([st EXCEPT !.bodies = s.bodies, !.a = s.a, !.t = Add(st.t, h),
                    !.ncalls = st.ncalls + s.ncalls],
         LAMBDA s1 : IF kk % K = 0 THEN record_sample(s1) ELSE s1))

(***************************************************************************)
(* Inputs.  Lengths are in units near the softening length (2^10 m),       *)
(* masses near 2^65 kg, so that with dt near 1 s the accelerations move    *)
(* the bodies by amounts comparable to their separations.                  *)
(***************************************************************************)
Pool ==
    << Body(Num(1, 65), <<Num(0, 0),  Num(0, 0)>>,  <<Num(0, 0),  Num(0, 0)>>),
       Body(Num(3, 64), <<Num(1, 10), Num(0, 0)>>,  <<Num(0, 0),  Num(1, 9)>>),
       Body(Num(1, 66), <<Num(-1, 9), Num(3, 9)>>,  <<Num(-1, 8), Num(1, 7)>>) >>

\* The ways to pick n bodies of the pool, a body possibly more than once (two
\* bodies at one place), listed in pool order.
Picks(n) ==
    { f \in [1..n -> 1..Len(Pool)] : \A i \in 1..(n - 1) : f[i] <= f[i + 1] }

\* The demo with the sign of the first body's velocity lost.
two_body_demo_samesign ==
    LET m1 == Dec(10359769, 59, 5972, 21)
        m2 == Dec(16315838, 52, 7348, 19)
        r  == Dec(10000000, 2, 4, 7)
    IN  Bind(Add(m1, m2), LAMBDA M :
        Bind(Sqrt(Div(Mul(G, M), r)), LAMBDA v :
            << Body(m1, <<Mul(Div(Neg(m2), M), r), Zero>>,
                        <<Zero, Mul(Div(m2, M), v)>>),
               Body(m2, <<Mul(Div(m1, M), r), Zero>>,
                        <<Zero, Mul(Div(m1, M), v)>>) >>))

\* two_body_demo(): m1 = 5.972e24, m2 = 7.348e22, r = 4.0e7,
\* v = sqrt(G*(m1+m2)/r); the bodies on the x axis at -m2/(m1+m2)*r and
\* m1/(m1+m2)*r, their velocities along y, -m2/(m1+m2)*v and m1/(m1+m2)*v.
two_body_demo ==
    LET m1 == Dec(10359769, 59, 5972, 21)
        m2 == Dec(16315838, 52, 7348, 19)
        r  == Dec(10000000, 2, 4, 7)
    IN  Bind(Add(m1, m2), LAMBDA M :
        Bind(Sqrt(Div(Mul(G, M), r)), LAMBDA v :
            << Body(m1, <<Mul(Div(Neg(m2), M), r), Zero>>,
                        <<Zero, Mul(Div(Neg(m2), M), v)>>),
               Body(m2, <<Mul(Div(m1, M), r), Zero>>,
                        <<Zero, Mul(Div(m1, M), v)>>) >>))

\* The systems a run starts from: the demo of main() and picks of the pool.
Systems ==
    { two_body_demo } \cup
    UNION { { Vec(LAMBDA i : Pool[f[i]], n) : f \in Picks(n) } : n \in 0..MaxBodies }

\* The default time step and one whose multiples do not all fit Prec bits.
Dts == { DT, Num(3, -2) }

(***************************************************************************)
(* The Ohm's-law demo, src/ohm/simulation.js.  Numbers are floating-point  *)
(* values of the arithmetic above.  The texts and colours the handlers     *)
(* write to the page and to the materials are read by no handler and are   *)
(* left out; sim holds the fields of the OhmsLawSimulation object and the  *)
(* visibility of circuit.arrow.                                            *)
(***************************************************************************)
\* voltage / resistance
Quotient(v, r) == FDiv(v, r)

\* The object as the constructor leaves it (lines 4-20): current is
\* voltage / resistance although the circuit is off; the arrow mesh of
\* createCircuit is visible, as every new mesh is.
Constructed ==
    [voltage      |-> FRound(12, 0),
     resistance   |-> FRound(6, 0),
     current      |-> Quotient(FRound(12, 0), FRound(6, 0)),
     isCircuitOn  |-> FALSE,
     arrowVisible |-> TRUE]

Digits == <<"0", "1", "2", "3", "4", "5", "6", "7", "8", "9">>

DigitValue(c) == (CHOOSE d \in 1..10 : Digits[d] = c) - 1

\* The digits of str read as one integer, the point skipped.
RECURSIVE DigitsValue(_, _)
DigitsValue(str, n) ==
    IF n = 0 THEN 0
    ELSE IF str[n] = "." THEN DigitsValue(str, n - 1)
    ELSE Bind(DigitsValue(str, n - 1), LAMBDA hi :
             10 * hi + DigitValue(str[n]))

\* The number of digits after the point.
FractionDigits(str) ==
    IF \E i \in 1..Len(str) : str[i] = "."
    THEN Len(str) - (CHOOSE i \in 1..Len(str) : str[i] = ".")
    ELSE 0

\* parseFloat of a slider's value, a decimal numeral: the floating-point
\* number nearest to it.
parseFloat(str) ==
    FDiv(<<DigitsValue(str, Len(str)), 0>>, <<10^FractionDigits(str), 0>>)

\* updateValues() without its test of the power state.
updateValues_alwayson(o) ==
    [o EXCEPT !.arrowVisible = TRUE,
              !.current = Quotient(o.voltage, o.resistance)]

\* updateValues(), lines 332-366.
updateValues(o) ==
    IF ~o.isCircuitOn
    THEN [o EXCEPT !.current = Zero, !.arrowVisible = FALSE]
    ELSE [o EXCEPT !.arrowVisible = TRUE,
                   !.current = Quotient(o.voltage, o.resistance)]

\* togglePower(), lines 317-329.
togglePower(o) == updateValues([o EXCEPT !.isCircuitOn = ~o.isCircuitOn])

\* The values the two sliders can be moved to.
VoltageValues ==
    { <<"0">>, <<"1", ".", "5">>, <<"3">>, <<"5">>, <<"6">>, <<"1", "0">>,
      <<"1", "2">>, <<"2", "4">> }

ResistanceValues ==
    { <<"0", ".", "5">>, <<"1">>, <<"2">>, <<"3">>, <<"6">>, <<"1", "0">>,
      <<"2", "0">> }

(***************************************************************************)
(* Barlow's wheel (src/barlow_wheel/wheel.js).                             *)
(*                                                                         *)
(* Numbers of this page are kept at a resolution of 10^-6: a speed is an   *)
(* integer count of micro-radians per second, or NaN.  The resolution is   *)
(* finer than the rest threshold times the smallest friction step, as the  *)
(* Float64 of the page is, so a damped speed never rounds back to itself.  *)
(* Sliders hold integers: volts, per cent of the field, ohms, per cent of  *)
(* friction; a frame interval is an integer count of milliseconds.         *)
(***************************************************************************)
\* A number of the page: a finite count of units, or NaN.
NaN == [nan |-> TRUE, val |-> 0]

Finite(n) == [nan |-> FALSE, val |-> n]

IsNaN(x) == x.nan

\* n / d for n >= 0 and d > 0, rounded to the nearest integer, ties to even.
RoundDiv(n, d) ==
    LET q == n \div d
        r == n % d
    IN  IF 2 * r > d \/ (2 * r = d /\ q % 2 = 1) THEN q + 1 ELSE q

\* Lines 7-19 and 226: the page's variables after initThree, buildExperiment
\* and bindUI, before the call animate() of line 251.  rotationZ records only
\* whether wheel.rotation.z is a number or NaN.
WheelLoaded ==
    [ isRunning       |-> FALSE,
      V               |-> 6,
      Bperc           |-> 50,
      R               |-> 20,
      friction        |-> 5,
      angularVelocity |-> Finite(0),
      rotationZ       |-> "number",
      lastTime        |-> "0" ]

\* Line 211: 0.0005 rad/s.
RestThreshold == 500

\* Lines 193-204: alpha * dt, in micro-radians per second, for dt milliseconds:
\* 0.6 * (Bperc / 100) * (V / R) * conductorLen * wheelRadius / Idisc with
\* conductorLen = 0.5, wheelRadius = 2 and Idisc = 0.5 * 1.0 * 2 * 2, times
\* dt / 1000, times 10^6.
AlphaDt(w, dtms) == RoundDiv(3 * w.Bperc * w.V * dtms, w.R)

\* Lines 203-207: the motor adds alpha * dt when it runs.  Any sum with NaN
\* is NaN.
Drive(w, dtms) ==
    IF ~w.isRunning THEN w.angularVelocity
    ELSE IF IsNaN(w.angularVelocity) \/ IsNaN(dtms)
         THEN NaN
         ELSE Finite(w.angularVelocity.val + AlphaDt(w, dtms.val))

\* Line 210: angularVelocity *= (1 - friction).
Damp_none(av, friction) == av

Damp(av, friction) ==
    IF IsNaN(av) THEN NaN ELSE Finite(RoundDiv(av.val * (100 - friction), 100))

\* Line 211: a speed below the threshold becomes 0; a comparison with NaN is
\* false.
Rest(av) ==
    IF IsNaN(av) THEN NaN
    ELSE IF Abs(av.val) < RestThreshold THEN Finite(0) ELSE av

\* Lines 191-221.  Line 214 is wheel.rotation.z += angularVelocity * dt; a
\* product with NaN is NaN, 0 * NaN included.
computePhysics(w, dtms) ==
    LET av == Rest(Damp(Drive(w, dtms), w.friction))
    IN  [w EXCEPT !.angularVelocity = av,
                  !.rotationZ =
                     IF @ = "NaN" \/ IsNaN(av) \/ IsNaN(dtms)
                     THEN "NaN" ELSE "number"]

\* Line 229: dt = (timestamp - lastTime) / 1000.  The call of line 251 passes
\* no timestamp, so timestamp is undefined there and the difference is NaN;
\* it leaves lastTime undefined, so the difference of the next frame is NaN
\* too.  From then on both are numbers, interval milliseconds apart.
FrameDt(lastTime, interval) ==
    IF lastTime = "number" THEN Finite(interval) ELSE NaN

\* Lines 227-234.  Line 230 is lastTime = timestamp.
animate(w, interval) ==
    [computePhysics(w, FrameDt(w.lastTime, interval))
        EXCEPT !.lastTime = IF @ = "0" THEN "undefined" ELSE "number"]

\* Lines 179-185: the reset button.
resetClick(w) ==
    [w EXCEPT !.V = 6, !.Bperc = 50, !.R = 20, !.friction = 5,
              !.angularVelocity = Finite(0), !.isRunning = FALSE]

\* The intervals between two animation frames, in milliseconds.
FrameIntervals == {16}

\* The positions the sliders are moved to.
WheelVoltages == {6, 12}
WheelFields == {50, 100}
WheelFrictions == {0, 5, 20}

(***************************************************************************)
(* Buoyancy demo (src/simulations/mechanics/buoyancy-sim/main.js; the copy *)
(* in src/unnamed/part_000 has the same handlers, without the snap         *)
(* button).                                                                *)
(*                                                                         *)
(* Positions and speeds are integer counts of hundredths of a pixel (per   *)
(* frame); a fraction is a count of thousandths; densities are kg/m^3,     *)
(* volumes litres, gravity tenths of m/s^2; the canvas and the mouse are   *)
(* whole pixels.  Every quotient is rounded to the nearest unit.           *)
(***************************************************************************)
\* n / d for d > 0, rounded to the nearest integer, for either sign of n.
SRoundDiv(n, d) == IF n < 0 THEN -RoundDiv(-n, d) ELSE RoundDiv(n, d)

Min(x, y) == IF x < y THEN x ELSE y

Max(x, y) == IF x > y THEN x ELSE y

\* Lines 115-123: the canvas takes the largest 16:9 box of its parent; the
\* width and height attributes of a canvas hold whole numbers.
resizeCanvas(b) ==
    IF b.pw * 9 > b.ph * 16
    THEN [b EXCEPT !.width = (b.ph * 16) \div 9, !.height = b.ph]
    ELSE [b EXCEPT !.width = b.pw, !.height = (b.pw * 9) \div 16]

\* Lines 15-29 and 125: params and state as declared, and the canvas after
\* the first resizeCanvas() in a parent of pw by ph pixels.
BuoyLoaded(pw, ph) ==
    resizeCanvas(
        [ shape         |-> "rect",
          objectDensity |-> 800,
          objectVolume  |-> 2,
          fluidDensity  |-> 1000,
          gravity       |-> 98,
          y             |-> 32000,
          vy            |-> 0,
          dragging      |-> FALSE,
          dragOffset    |-> 0,
          submerged     |-> 0,
          width         |-> 0,
          height        |-> 0,
          pw            |-> pw,
          ph            |-> ph ])

\* Line 162: h = Math.max(40, 80 * V) with V = objectVolume * 0.001.
RectHeight(b) == Max(4000, 8 * b.objectVolume)

\* 100 times the cube root of n, rounded down: the largest c of lo..hi with
\* c^3 <= 10^6 n, by bisection.
RECURSIVE CbrtSearch(_, _, _)
CbrtSearch(n, lo, hi) ==
    IF lo = hi THEN lo
    ELSE LET mid == (lo + hi + 1) \div 2
         IN  IF mid * mid * mid <= n * 1000000
             THEN CbrtSearch(n, mid, hi)
             ELSE CbrtSearch(n, lo, mid - 1)

\* Line 170: r = Math.max(30, 80 * Math.cbrt(V)).
CircleRadius(b) == Max(3000, 8 * CbrtSearch(b.objectVolume, 0, 1200))

\* Lines 176-178.
getWaterLevel(b) == 65 * b.height

\* The canvas height, in the unit of positions.
CanvasHeight(b) == 100 * b.height

\* Lines 264-284: h / 2 for the rectangle, r for the sphere.
HalfExtent(b) ==
    IF b.shape = "rect" THEN RectHeight(b) \div 2 ELSE CircleRadius(b)

\* Lines 148-157: the point (mx, my) of the canvas, in pixels, lies on the
\* object.
isOnObject(b, mx, my) ==
    IF b.shape = "rect"
    THEN LET x == 50 * b.width - 4000
             y == b.y - RectHeight(b) \div 2
         IN  /\ 100 * mx >= x
             /\ 100 * mx <= x + 8000
             /\ 100 * my >= y
             /\ 100 * my <= y + RectHeight(b)
    ELSE LET dx == Abs(100 * mx - 50 * b.width)
             dy == Abs(100 * my - b.y)
             r  == CircleRadius(b)
         IN  /\ dx <= r
             /\ dy <= r
             /\ dx * dx + dy * dy <= r * r

\* Lines 180-203.  For the rectangle the fraction is
\* (fluidRho * V * g) / (m * g) with m = objRho * V, clamped to [0, 1].
getEquilibriumY(b) ==
    LET submFrac == Min(1000, Max(0, RoundDiv(1000 * b.fluidDensity,
                                              b.objectDensity)))
    IN  IF b.shape = "rect"
        THEN getWaterLevel(b) + RectHeight(b) \div 2
                - RoundDiv(RectHeight(b) * submFrac, 1000)
        ELSE getWaterLevel(b) + CircleRadius(b)
                - RoundDiv(2 * CircleRadius(b) * submFrac, 1000)

\* Lines 218-251: the submerged fraction.  For the sphere the cap of height
\* capH has the fraction x * x * (3 - 2 * x) of the volume, x = capH / (2 r).
SubmergedFrac(b) ==
    LET half == HalfExtent(b)
        objTop == b.y - half
        objBottom == IF b.shape = "rect" THEN objTop + RectHeight(b)
                     ELSE b.y + half
        yWater == getWaterLevel(b)
    IN  IF objBottom < yWater THEN 0
        ELSE IF objTop > yWater THEN 1000
        ELSE IF b.shape = "rect"
        THEN Min(1000, Max(0, RoundDiv(1000 * (objBottom - yWater),
                                       RectHeight(b))))
        ELSE LET capH == Min(2 * half, Max(0, objBottom - yWater))
                 x == RoundDiv(1000 * capH, 2 * half)
             IN  Min(1000, Max(0, RoundDiv(x * x * (3000 - 2 * x),
                                           1000000000)))

\* Lines 254-256 and 260: netForce / m * 0.5 with weight = m * g and
\* buoyant = fluidRho * g * submergedV, for a mass above 0.
NetAccel(b) ==
    LET rel == SRoundDiv(b.fluidDensity * SubmergedFrac(b)
                            - 1000 * b.objectDensity, b.objectDensity)
    IN  SRoundDiv(rel * b.gravity * 5, 1000)

\* Lines 263-284: the two bounds, the lower edge of the canvas first.
Clamp_bottomonly(b, y, vy) ==
    LET half == HalfExtent(b)
        hi == CanvasHeight(b) - half
    IN  IF y > hi THEN [y |-> hi, vy |-> 0] ELSE [y |-> y, vy |-> vy]

Clamp(b, y, vy) ==
    LET half == HalfExtent(b)
        hi == CanvasHeight(b) - half
        y1 == IF y > hi THEN hi ELSE y
        vy1 == IF y > hi THEN 0 ELSE vy
    IN  IF y1 < half THEN [y |-> half, vy |-> 0] ELSE [y |-> y1, vy |-> vy1]

\* Lines 205-296.
calcPhysics_whiledragging(b) ==
    LET vy == SRoundDiv((b.vy + NetAccel(b)) * 96, 100)
        c == Clamp(b, b.y + vy, vy)
    IN  [b EXCEPT !.y = c.y, !.vy = c.vy, !.submerged = SubmergedFrac(b)]

calcPhysics(b) ==
    IF b.dragging
    THEN [b EXCEPT !.submerged = SubmergedFrac(b)]
    ELSE LET vy == SRoundDiv((b.vy + NetAccel(b)) * 96, 100)
             c == Clamp(b, b.y + vy, vy)
         IN  [b EXCEPT !.y = c.y, !.vy = c.vy,
                       !.submerged = SubmergedFrac(b)]

\* Lines 101-106.
resetSim(b) ==
    [b EXCEPT !.y = getEquilibriumY(b), !.vy = 0, !.dragging = FALSE,
              !.submerged = 0]

\* Lines 108-112.
snapToEquilibrium(b) ==
    [b EXCEPT !.y = getEquilibriumY(b), !.vy = 0, !.dragging = FALSE]

\* Lines 128-136.
mousedown(b, mx, my) ==
    IF isOnObject(b, mx, my)
    THEN [b EXCEPT !.dragging = TRUE, !.dragOffset = 100 * my - b.y]
    ELSE b

\* Lines 137-142.
mousemove(b, my) ==
    IF ~b.dragging THEN b
    ELSE [b EXCEPT !.y = Max(8000, Min(100 * my - b.dragOffset,
                                       CanvasHeight(b) - 8000))]

\* Lines 143-145.
mouseup(b) == [b EXCEPT !.dragging = FALSE]

\* The sizes of the canvas's parent, in pixels.
ParentSizes == { <<53, 30>>, <<240, 200>>, <<800, 450>> }

\* The positions of the mouse on the canvas, in pixels.
MouseXs == { 0, 26, 120, 400 }
MouseYs == { 20, 100, 320, 430 }

\* The values the inputs are set to.
ObjectDensities == { 800, 1200 }
ObjectVolumes == { 2, 1000 }
Shapes == { "rect", "sphere" }

\* Lines 56-62: the fluid presets clicked, fresh water and mercury.
waterPresets == { 1000, 13546 }

BuoyIdle ==
    /\ buoy = BuoyLoaded(800, 450)
    /\ buoyDrags = 0
    /\ buoyInputs = 0

(***************************************************************************)
(* Wire demo (class WireResistanceSimulation of src/ohm/simulation.js).    *)
(*                                                                         *)
(* Time is counted in milliseconds by clocks that are reset where the code *)
(* stores performance.now(): sinceReset is now - state.lastFrameTime,      *)
(* sinceAdjust is now - lastParticleAdjustTime, untilStats the time to the *)
(* next callback of the interval timer, sinceFrame the time since the      *)
(* previous call of animate.  A clock stops counting at MaxClock, and all  *)
(* of them once the simulation has stopped: nothing reads the time then.   *)
(***************************************************************************)
\* Line 429: CONFIG.PARTICLES.COUNT.
PARTICLES_COUNT == 50

\* Lines 528-530: the period of the stats timer.
StatsPeriod == 1000

\* Line 777: the deltaTime above which a frame is skipped.
SkipAbove == 100

\* Lines 441-459 and 467-494: the object after the constructor.  liveCount is
\* the number of particles of this.particles, 0 when there is none.
WireConstructed ==
    [ phase         |-> "constructed",
      isInitialized |-> FALSE,
      isRunning     |-> FALSE,
      frameCount    |-> 0,
      sinceReset    |-> 0,
      hasScene      |-> FALSE,
      liveCount     |-> 0,
      hasStats      |-> FALSE,
      fps           |-> 0,
      particleCount |-> 0,
      adjusted      |-> FALSE,
      sinceAdjust   |-> 0,
      timerActive   |-> FALSE,
      untilStats    |-> 0,
      rafPending    |-> FALSE,
      sinceFrame    |-> 0,
      recreated     |-> FALSE,
      errorShown    |-> FALSE,
      rejected      |-> FALSE,
      disposeThrew  |-> FALSE,
      cleanupLogged |-> FALSE ]

\* Every clock of w after ms more milliseconds.
Advance(w, ms) ==
    IF ~w.isRunning THEN w
    ELSE [w EXCEPT !.sinceReset = Min(@ + ms, MaxClock),
                   !.sinceAdjust = Min(@ + ms, MaxClock),
                   !.sinceFrame = Min(@ + ms, MaxClock),
                   !.untilStats = Max(0, @ - ms)]

\* Lines 926-944: the error is logged and shown in a box.
handleError(w) == [w EXCEPT !.errorShown = TRUE]

\* Lines 771-794: animate with the given deltaTime; throws says whether the
\* rendering of lines 783-785 throws.
wireAnimate(w, deltaTime, throws) ==
    LET called == [w EXCEPT !.rafPending = FALSE, !.sinceFrame = 0]
    IN  IF ~w.isRunning \/ ~w.isInitialized THEN called
        ELSE IF deltaTime > SkipAbove THEN [called EXCEPT !.rafPending = TRUE]
        ELSE IF throws
        THEN [handleError(called) EXCEPT !.isRunning = FALSE]
        ELSE [called EXCEPT !.frameCount = @ + 1, !.rafPending = TRUE]

\* Lines 764-768.  animate() is called with the default timestamp 0, so its
\* deltaTime is 0 - state.lastFrameTime, and lastFrameTime is still 0.
startSimulation(w, throws) ==
    IF ~w.isInitialized THEN w
    ELSE wireAnimate([w EXCEPT !.isRunning = TRUE], 0, throws)

\* Lines 520-531.  The identifier setInterval returns is not kept.
initializePerformanceMonitoring(w) ==
    [w EXCEPT !.hasStats = TRUE, !.fps = 0,
              !.particleCount = PARTICLES_COUNT,
              !.timerActive = TRUE, !.untilStats = StatsPeriod]

\* Lines 502-506: the set-up steps, in order.
SetupSteps ==
    << "initializeScene", "initializeControls", "createWireModel",
       "createParticles", "setupEventListeners" >>

\* The effect of the first n set-up steps, each returning.
RECURSIVE SetupUpTo(_, _)
SetupUpTo(w, n) ==
    IF n = 0 THEN w
    ELSE LET done == SetupUpTo(w, n - 1)
         IN  IF SetupSteps[n] = "initializeScene"
             THEN [done EXCEPT !.hasScene = TRUE]
             ELSE IF SetupSteps[n] = "createParticles"
             THEN [done EXCEPT !.liveCount = PARTICLES_COUNT]
             ELSE done

\* Lines 500-517: initialize(), where set-up step failAt throws (0: none
\* does).  elapsed is performance.now() at the call.
initialize_flagfirst(w, failAt, throws, elapsed) ==
    LET w0 == [w EXCEPT !.sinceReset = elapsed, !.isInitialized = TRUE]
    IN  IF failAt > 0
        THEN [handleError(SetupUpTo(w0, failAt - 1))
                 EXCEPT !.phase = "failed", !.rejected = TRUE]
        ELSE [startSimulation(
                  initializePerformanceMonitoring(
                      SetupUpTo(w0, Len(SetupSteps))), throws)
                 EXCEPT !.phase = "initialized"]

initialize(w, failAt, throws, elapsed) ==
    LET w0 == [w EXCEPT !.sinceReset = elapsed]
    IN  IF failAt > 0
        THEN [handleError(SetupUpTo(w0, failAt - 1))
                 EXCEPT !.phase = "failed", !.rejected = TRUE]
        ELSE [startSimulation(
                  initializePerformanceMonitoring(
                      [SetupUpTo(w0, Len(SetupSteps))
                          EXCEPT !.isInitialized = TRUE]), throws)
                 EXCEPT !.phase = "initialized"]

\* Lines 825-860.
recreateParticles(w) ==
    [w EXCEPT !.liveCount = w.particleCount, !.recreated = TRUE]

\* Lines 548-567.
adjustParticleCount_unclamped(w) ==
    IF ~w.adjusted \/ w.sinceAdjust > 1000
    THEN LET adj == IF w.fps < 30
                    THEN recreateParticles(
                            [w EXCEPT !.particleCount = w.particleCount - 5])
                    ELSE IF w.fps > 55
                    THEN recreateParticles(
                            [w EXCEPT !.particleCount = w.particleCount + 5])
                    ELSE w
         IN  [adj EXCEPT !.adjusted = TRUE, !.sinceAdjust = 0]
    ELSE w

adjustParticleCount(w) ==
    IF ~w.adjusted \/ w.sinceAdjust > 1000
    THEN LET adj == IF w.fps < 30 /\ w.particleCount > 10
                    THEN recreateParticles(
                            [w EXCEPT !.particleCount =
                                         Max(10, w.particleCount - 5)])
                    ELSE IF w.fps > 55 /\ w.particleCount < PARTICLES_COUNT
                    THEN recreateParticles(
                            [w EXCEPT !.particleCount =
                                         Min(PARTICLES_COUNT,
                                             w.particleCount + 5)])
                    ELSE w
         IN  [adj EXCEPT !.adjusted = TRUE, !.sinceAdjust = 0]
    ELSE w

\* Lines 533-546.
updatePerformanceStats(w) ==
    IF ~w.isRunning THEN w
    ELSE adjustParticleCount(
            [w EXCEPT !.fps = w.frameCount, !.frameCount = 0,
                      !.sinceReset = 0])

\* Lines 946-965.  disposeThreeJSResources is not a method of the class, so
\* line 952 throws a TypeError, which the catch of line 962 logs; lines
\* 955-960 are not reached, and statsInterval is assigned nowhere.
dispose(w) ==
    [w EXCEPT !.isRunning = FALSE, !.isInitialized = FALSE,
              !.cleanupLogged = TRUE]

\* The intervals between animation frames, in milliseconds: a display that
\* refreshes every 20 ms, and pauses at times.
FrameGaps == { 20, 120 }

\* performance.now() at the call of initialize().
StartTimes == { 50, 500 }

\* How late a callback of the timer runs, in milliseconds.
TimerLateness == { 0, 4 }

WireIdle == wire = WireConstructed

\* A program that is not the one running: its variables keep the values
\* they are declared with.
NbodyIdle ==
    /\ arith = "float"
    /\ bodies = <<>>
    /\ bodies0 = <<>>
    /\ a = <<>>
    /\ dt = Zero
    /\ nsteps = 0
    /\ output_every = 1
    /\ k = 0
    /\ t = Zero
    /\ times = <<>>
    /\ energies = <<>>
    /\ samples = <<>>
    /\ hist = <<>>
    /\ ncalls = 0
    /\ pc = "idle"

OhmIdle ==
    /\ sim = Constructed
    /\ voltageSlider = <<>>
    /\ resistanceSlider = <<>>
    /\ page = "constructed"

WheelIdle ==
    /\ wheel = WheelLoaded
    /\ wheelClicks = 0

\* Line 389: the page has run new OhmsLawSimulation(); the N-body program is
\* not part of this page.
OhmInit ==
    /\ sim = Constructed
    /\ voltageSlider = <<>>
    /\ resistanceSlider = <<>>
    /\ page = "constructed"
    /\ arith = "float"
    /\ bodies = <<>>
    /\ bodies0 = <<>>
    /\ a = <<>>
    /\ dt = Zero
    /\ nsteps = 0
    /\ output_every = 1
    /\ k = 0
    /\ t = Zero
    /\ times = <<>>
    /\ energies = <<>>
    /\ samples = <<>>
    /\ hist = <<>>
    /\ ncalls = 0
    /\ pc = "idle"
    /\ WheelIdle
    /\ BuoyIdle
    /\ WireIdle

\* Line 395: simulation.updateValues(), the end of the page's script.
InitialUpdate ==
    /\ page = "constructed"
    /\ sim' = updateValues(sim)
    /\ page' = "ready"
    /\ UNCHANGED <<voltageSlider, resistanceSlider, notOhmVars>>

\* Lines 272-275: the input event of the voltage slider.
VoltageInput ==
    /\ page = "ready"
    /\ \E value \in VoltageValues :
          /\ voltageSlider' = value
          /\ sim' = updateValues([sim EXCEPT !.voltage = parseFloat(value)])
    /\ UNCHANGED <<resistanceSlider, page, notOhmVars>>

\* Lines 277-280: the input event of the resistance slider.
ResistanceInput ==
    /\ page = "ready"
    /\ \E value \in ResistanceValues :
          /\ resistanceSlider' = value
          /\ sim' = updateValues([sim EXCEPT !.resistance = parseFloat(value)])
    /\ UNCHANGED <<voltageSlider, page, notOhmVars>>

\* Lines 305-314: a click on the window; it toggles the power when its ray
\* meets the switch lever.
Click ==
    /\ page = "ready"
    /\ \E hit \in BOOLEAN :
          sim' = IF hit THEN togglePower(sim) ELSE sim
    /\ UNCHANGED <<voltageSlider, resistanceSlider, page, notOhmVars>>

OhmNext == InitialUpdate \/ VoltageInput \/ ResistanceInput \/ Click

OhmSpec == OhmInit /\ [][OhmNext]_vars

\* The call simulate!(bodies; dt, nsteps, output_every) about to be made; the
\* Ohm's-law page plays no part in it.
Init ==
    /\ arith \in {"float", "exact"}
    /\ bodies \in Systems
    /\ bodies0 = bodies
    /\ dt \in Dts
    /\ nsteps \in 0..MaxSteps
    /\ output_every \in 1..MaxCadence
    /\ a = <<>>
    /\ k = 0
    /\ t = Zero
    /\ times = <<>>
    /\ energies = <<>>
    /\ samples = <<>>
    /\ hist = <<>>
    /\ ncalls = 0
    /\ pc = "start"
    /\ sim = Constructed
    /\ voltageSlider = <<>>
    /\ resistanceSlider = <<>>
    /\ page = "constructed"
    /\ WheelIdle
    /\ BuoyIdle
    /\ WireIdle

\* Lines 175-188: allocate and bootstrap the buffer, record the initial sample.
\* With no bodies the reduction of line 186 throws, after the two pushes of
\* lines 184-185.
Bootstrap ==
    /\ pc = "start"
    /\ \E a1 \in { accelerations(ZeroBuffer(bodies), bodies) },
          e  \in { total_energy(bodies) } :
          /\ a' = a1
          /\ bodies' = e.bodies
          /\ times' = <<Zero>>
          /\ energies' = <<e.value>>
          /\ hist' = <<[bodies |-> e.bodies, a |-> a1]>>
          /\ IF Len(bodies) = 0
             THEN /\ samples' = <<>>
                  /\ pc' = "failed"
             ELSE /\ samples' = <<flatten(e.bodies)>>
                  /\ pc' = "running"
    /\ t' = Zero
    /\ k' = 0
    /\ ncalls' = 1
    /\ UNCHANGED <<arith, dt, nsteps, output_every, bodies0, notNbodyVars>>

\* Lines 189-198: iteration k + 1 of the loop.
Step ==
    /\ pc = "running"
    /\ k < nsteps
    /\ \E s \in { loop_body(State, dt, k + 1, output_every) } :
          /\ bodies' = s.bodies
          /\ a' = s.a
          /\ t' = s.t
          /\ times' = s.times
          /\ energies' = s.energies
          /\ samples' = s.samples
          /\ ncalls' = s.ncalls
          /\ hist' = Append(hist, [bodies |-> s.bodies, a |-> s.a])
    /\ k' = k + 1
    /\ UNCHANGED <<arith, dt, nsteps, output_every, pc, bodies0, notNbodyVars>>

\* Line 199: the loop is over; return times, energies, samples.
Return ==
    /\ pc = "running"
    /\ k = nsteps
    /\ pc' = "finished"
    /\ UNCHANGED <<arith, bodies, a, dt, nsteps, output_every, k, t,
                   times, energies, samples, bodies0, hist, ncalls, notNbodyVars>>

Next == Bootstrap \/ Step \/ Return

Spec == Init /\ [][Next]_vars

(***************************************************************************)
(* Barlow's wheel: the page's events.                                      *)
(***************************************************************************)
\* Lines 248-250: initThree, buildExperiment and bindUI have run; the call
\* animate() of line 251 is the first frame.
WheelInit ==
    /\ wheel = WheelLoaded
    /\ wheelClicks = 0
    /\ NbodyIdle
    /\ OhmIdle
    /\ BuoyIdle
    /\ WireIdle

\* Lines 227-234: one animation frame, the call of line 251 or a callback of
\* requestAnimationFrame.
Frame ==
    /\ \/ ~wheel.isRunning
       \/ IsNaN(wheel.angularVelocity)
       \/ wheel.angularVelocity.val <= MaxSpeed
    /\ \E interval \in FrameIntervals : wheel' = animate(wheel, interval)
    /\ UNCHANGED <<wheelClicks, notWheelVars>>

\* Lines 149-152: the voltage slider.
WheelVoltageInput ==
    /\ \E value \in WheelVoltages : wheel' = [wheel EXCEPT !.V = value]
    /\ UNCHANGED <<wheelClicks, notWheelVars>>

\* Lines 156-159: the field slider.
FieldInput ==
    /\ \E value \in WheelFields : wheel' = [wheel EXCEPT !.Bperc = value]
    /\ UNCHANGED <<wheelClicks, notWheelVars>>

\* Lines 163-166: the resistance slider.
WheelResistanceInput ==
    /\ \E value \in {20} : wheel' = [wheel EXCEPT !.R = value]
    /\ UNCHANGED <<wheelClicks, notWheelVars>>

\* Lines 170-173: the friction slider.
FrictionInput ==
    /\ \E value \in WheelFrictions : wheel' = [wheel EXCEPT !.friction = value]
    /\ UNCHANGED <<wheelClicks, notWheelVars>>

\* Lines 175-177: the run button.
RunClick ==
    /\ wheelClicks < MaxClicks
    /\ wheel' = [wheel EXCEPT !.isRunning = ~wheel.isRunning]
    /\ wheelClicks' = wheelClicks + 1
    /\ UNCHANGED notWheelVars

\* Lines 179-185: the reset button.
ResetClick ==
    /\ wheel' = resetClick(wheel)
    /\ UNCHANGED <<wheelClicks, notWheelVars>>

WheelNext ==
    \/ Frame
    \/ WheelVoltageInput
    \/ FieldInput
    \/ WheelResistanceInput
    \/ FrictionInput
    \/ RunClick
    \/ ResetClick

WheelSpec == WheelInit /\ [][WheelNext]_vars

\* requestAnimationFrame (line 228) keeps the frames coming.
WheelFairSpec == WheelSpec /\ WF_vars(Frame)

(***************************************************************************)
(* Buoyancy demo: the page's events.                                       *)
(***************************************************************************)
\* Lines 15-125: the script has run up to the first resizeCanvas(); loop()
\* of line 491 is the first frame.
BuoyInit ==
    /\ \E size \in ParentSizes : buoy = BuoyLoaded(size[1], size[2])
    /\ buoyDrags = 0
    /\ buoyInputs = 0
    /\ NbodyIdle
    /\ OhmIdle
    /\ WheelIdle
    /\ WireIdle

\* Lines 485-490: one frame, resizeCanvas() then calcPhysics().
Loop ==
    /\ buoy' = calcPhysics(resizeCanvas(buoy))
    /\ UNCHANGED <<buoyDrags, buoyInputs, notBuoyVars>>

\* Line 124: the resize event of the window, the parent of the canvas having
\* taken a new size.
Resize ==
    /\ buoyInputs < MaxInputs
    /\ \E size \in ParentSizes :
          buoy' = resizeCanvas([buoy EXCEPT !.pw = size[1], !.ph = size[2]])
    /\ buoyInputs' = buoyInputs + 1
    /\ UNCHANGED <<buoyDrags, notBuoyVars>>

\* Lines 44-47: the four pairs of inputs.
ObjectDensityInput ==
    /\ buoyInputs < MaxInputs
    /\ \E v \in ObjectDensities : buoy' = [buoy EXCEPT !.objectDensity = v]
    /\ buoyInputs' = buoyInputs + 1
    /\ UNCHANGED <<buoyDrags, notBuoyVars>>

ObjectVolumeInput ==
    /\ buoyInputs < MaxInputs
    /\ \E v \in ObjectVolumes : buoy' = [buoy EXCEPT !.objectVolume = v]
    /\ buoyInputs' = buoyInputs + 1
    /\ UNCHANGED <<buoyDrags, notBuoyVars>>

FluidDensityInput ==
    /\ buoyInputs < MaxInputs
    /\ \E v \in { 1000 } : buoy' = [buoy EXCEPT !.fluidDensity = v]
    /\ buoyInputs' = buoyInputs + 1
    /\ UNCHANGED <<buoyDrags, notBuoyVars>>

GravityInput ==
    /\ buoyInputs < MaxInputs
    /\ \E v \in { 98 } : buoy' = [buoy EXCEPT !.gravity = v]
    /\ buoyInputs' = buoyInputs + 1
    /\ UNCHANGED <<buoyDrags, notBuoyVars>>

\* Lines 78-82: a preset button.
PresetClick ==
    /\ buoyInputs < MaxInputs
    /\ \E v \in waterPresets : buoy' = [buoy EXCEPT !.fluidDensity = v]
    /\ buoyInputs' = buoyInputs + 1
    /\ UNCHANGED <<buoyDrags, notBuoyVars>>

\* Lines 49-52: the shape selector.
ShapeChange ==
    /\ buoyInputs < MaxInputs
    /\ \E v \in Shapes : buoy' = resetSim([buoy EXCEPT !.shape = v])
    /\ buoyInputs' = buoyInputs + 1
    /\ UNCHANGED <<buoyDrags, notBuoyVars>>

\* Line 53: the reset button.
BuoyResetClick ==
    /\ buoy' = resetSim(buoy)
    /\ UNCHANGED <<buoyDrags, buoyInputs, notBuoyVars>>

\* Line 98: the snap button.
SnapClick ==
    /\ buoy' = snapToEquilibrium(buoy)
    /\ UNCHANGED <<buoyDrags, buoyInputs, notBuoyVars>>

\* Lines 128-136.
MouseDown ==
    /\ \E mx \in MouseXs, my \in MouseYs :
          /\ isOnObject(buoy, mx, my) => buoyDrags < MaxDrags
          /\ buoy' = mousedown(buoy, mx, my)
          /\ buoyDrags' = IF isOnObject(buoy, mx, my) THEN buoyDrags + 1
                          ELSE buoyDrags
    /\ UNCHANGED <<buoyInputs, notBuoyVars>>

\* Lines 137-142.
MouseMove ==
    /\ \E my \in MouseYs : buoy' = mousemove(buoy, my)
    /\ UNCHANGED <<buoyDrags, buoyInputs, notBuoyVars>>

\* Lines 143-145.
MouseUp ==
    /\ buoy' = mouseup(buoy)
    /\ UNCHANGED <<buoyDrags, buoyInputs, notBuoyVars>>

BuoyNext ==
    \/ Loop
    \/ Resize
    \/ ObjectDensityInput
    \/ ObjectVolumeInput
    \/ FluidDensityInput
    \/ GravityInput
    \/ PresetClick
    \/ ShapeChange
    \/ BuoyResetClick
    \/ SnapClick
    \/ MouseDown
    \/ MouseMove
    \/ MouseUp

BuoySpec == BuoyInit /\ [][BuoyNext]_vars

(***************************************************************************)
(* Wire demo: the calls made on the object and the browser's callbacks.    *)
(***************************************************************************)
\* Lines 441-459: new WireResistanceSimulation() has returned.
WireInit ==
    /\ wire = WireConstructed
    /\ NbodyIdle
    /\ OhmIdle
    /\ WheelIdle
    /\ BuoyIdle

\* Lines 500-517: the call of initialize().
Initialize ==
    /\ wire.phase = "constructed"
    /\ \E failAt \in 0..Len(SetupSteps), throws \in BOOLEAN,
          elapsed \in StartTimes :
          wire' = initialize(wire, failAt, throws, elapsed)
    /\ UNCHANGED notWireVars

\* Lines 778 and 789: a callback of requestAnimationFrame, gap milliseconds
\* after the last event; its timestamp is the time of the frame.
AnimationFrame ==
    /\ wire.rafPending
    /\ \E gap \in FrameGaps, throws \in BOOLEAN :
          /\ wire.isRunning => gap <= wire.untilStats
          /\ \E w \in { Advance(wire, gap) } :
                wire' = wireAnimate(w, w.sinceReset, throws)
    /\ UNCHANGED notWireVars

\* Lines 528-530: a callback of the interval timer.
StatsTimer ==
    /\ wire.timerActive
    /\ \E late \in TimerLateness :
          \E w \in { Advance(wire, wire.untilStats + late) } :
             wire' = [updatePerformanceStats([w EXCEPT !.recreated = FALSE])
                         EXCEPT !.untilStats =
                                   IF w.isRunning THEN StatsPeriod ELSE @]
    /\ UNCHANGED notWireVars

\* Lines 946-965: the call of dispose().
Dispose ==
    /\ wire' = dispose(wire)
    /\ UNCHANGED notWireVars

WireNext == Initialize \/ AnimationFrame \/ StatsTimer \/ Dispose

WireSpec == WireInit /\ [][WireNext]_vars

\* Lines 778 and 789: an animation frame of a caller that drives animate()
\* every millisecond, the rate at which a second can count more than 55
\* frames.
QuickFrame ==
    /\ wire.rafPending
    /\ wire.isRunning
    /\ wire.frameCount < MaxFrames
    /\ \E gap \in { 1 } :
          /\ gap <= wire.untilStats
          /\ \E w \in { Advance(wire, gap) } :
                wire' = wireAnimate(w, w.sinceReset, FALSE)
    /\ UNCHANGED notWireVars

WireQuickNext == Initialize \/ QuickFrame \/ StatsTimer \/ Dispose

\* The wire demo with its frames one millisecond apart.
WireQuickSpec == WireInit /\ [][WireQuickNext]_vars

(***************************************************************************)
(* Properties.                                                             *)
(***************************************************************************)
\* simulate! is past its setup: every such state is a step boundary.
Started == pc \in {"running", "finished"}

\* The step boundary before the current one, and the current one.
Prev == hist[Len(hist) - 1]
Cur == hist[Len(hist)]

\* C1: at every step boundary of a run (after the bootstrap call and after
\* every vv_step!) the buffer a equals what the kernel produces, on a fresh
\* buffer, from the bodies' current positions.
C1_BufferFresh ==
    Started => a = accelerations(ZeroBuffer(bodies), bodies)

\* Two steps into a run of several bodies, the buffer having changed since
\* the bootstrap call.
C1_Witness ==
    /\ pc = "running"
    /\ k >= 2
    /\ Len(bodies) >= 2
    /\ a # hist[1].a
    /\ a[1] # zeros

\* C2: after k steps times, energies and samples all have length
\* 1 + floor(k / K), on return 1 + floor(N / K), and the samples are those of
\* the boundaries 0, K, 2K, ... and no others.  (A call without bodies throws
\* at line 186, before the first step: it has no state after k steps and
\* never returns.)
C2_SampleCount ==
    Started =>
        /\ Len(times) = 1 + (k \div output_every)
        /\ Len(energies) = 1 + (k \div output_every)
        /\ Len(samples) = 1 + (k \div output_every)
        /\ pc = "finished" => Len(samples) = 1 + (nsteps \div output_every)
        /\ \A i \in 1..Len(samples) :
               samples[i] = flatten(hist[(i - 1) * output_every + 1].bodies)

\* A returned run of an odd number of steps recorded every second step.
C2_Witness ==
    /\ pc = "finished"
    /\ nsteps = 3
    /\ output_every = 2
    /\ Len(samples) = 2
    /\ Len(bodies) >= 2

\* sum over the bodies 1..i of m * v[d]
RECURSIVE MomentumSum(_, _, _)
MomentumSum(bs, d, i) ==
    IF i = 0 THEN Zero
    ELSE Add(MomentumSum(bs, d, i - 1), Mul(bs[i].m, bs[i].v[d]))

Momentum(bs) == Vec(LAMBDA d : MomentumSum(bs, d, Len(bs)), NDIM)

\* C3: in exact arithmetic the total linear momentum, the sum of
\* mass_i * velocity_i, is after any number of steps what it was initially.
C3_Momentum ==
    (Started /\ arith = "exact") => Momentum(bodies) = Momentum(bodies0)

\* Three bodies, two steps, a velocity changed, a total momentum that is not
\* zero.
C3_Witness ==
    /\ arith = "exact"
    /\ pc = "running"
    /\ k >= 2
    /\ Len(bodies) = 3
    /\ bodies[1].v # bodies0[1].v
    /\ Momentum(bodies) # zeros

\* acceleration_1 * mass_1 == -acceleration_2 * mass_2 in every coordinate
Symmetric(acc, bs) ==
    \A d \in 1..NDIM :
        Mul(acc[1][d], bs[1].m) = Neg(Mul(acc[2][d], bs[2].m))

\* |x + y| <= 2^(4 - Prec) * |x| for floating-point values x and y: y is -x
\* to within the rounding of four operations on either side.
NearlyOpposite(x, y) ==
    IF x[1] = 0 \/ y[1] = 0 THEN x[1] = 0 /\ y[1] = 0
    ELSE /\ (x[1] < 0) # (y[1] < 0)
         /\ Abs(MsbPos(x) - MsbPos(y)) <= 1
         /\ LET e == IF x[2] < y[2] THEN x[2] ELSE y[2]
                p == x[1] * 2^(x[2] - e)
                q == y[1] * 2^(y[2] - e)
            IN  Abs(p + q) * 2^Prec <= 16 * Abs(p)

\* C4 as stated: for two bodies, after every call of the kernel,
\* acceleration_1 * mass_1 == -acceleration_2 * mass_2 exactly, in every
\* coordinate.
C4_Exactly ==
    (Started /\ Len(bodies) = 2) => Symmetric(a, bodies)

\* C4 as amended: for two bodies, after every call of the kernel,
\* acceleration_1 * mass_1 equals -acceleration_2 * mass_2 in every coordinate
\* in exact arithmetic, and to within rounding in floating point.
C4_UpToRounding ==
    (Started /\ Len(bodies) = 2) =>
        IF arith = "exact" THEN Symmetric(a, bodies)
        ELSE \A d \in 1..NDIM :
                 NearlyOpposite(Mul(a[1][d], bodies[1].m),
                                Mul(a[2][d], bodies[2].m))

\* Two bodies of different masses after a step, with an acceleration that is
\* not zero.
C4_Witness ==
    /\ Started
    /\ Len(bodies) = 2
    /\ k >= 1
    /\ bodies[1].m # bodies[2].m
    /\ a[1][1] # Zero

\* The contribution of body j to the acceleration of body i:
\* G * mass_j * (x_j - x_i) / (|x_j - x_i|^2 + eps^2)^1.5
RefTerm(bs, i, j) ==
    Bind(Rvec(bs[i].x, bs[j].x), LAMBDA rvec :
    Bind(Mul(Mul(G, bs[j].m), InvR3(rvec)), LAMBDA f :
        Vec(LAMBDA d : Mul(f, rvec[d]), NDIM)))

\* The sum of the contributions of the bodies 1..j other than i.
RECURSIVE RefSum(_, _, _)
RefSum(bs, i, j) ==
    IF j = 0 THEN zeros
    ELSE IF j = i THEN RefSum(bs, i, j - 1)
    ELSE Bind2(RefSum(bs, i, j - 1), RefTerm(bs, i, j), LAMBDA sum, term :
             Vec(LAMBDA d : Add(sum[d], term[d]), NDIM))

Reference(bs) == Vec(LAMBDA i : RefSum(bs, i, Len(bs)), Len(bs))

\* C5: the kernel returns for every body i the sum over all other bodies j of
\* G * mass_j * (x_j - x_i) / (|x_j - x_i|^2 + eps^2)^1.5, for any number of
\* bodies; with 0 bodies or 1 body every acceleration is zero.
C5_ReferenceSum ==
    LET out == accelerations(ZeroBuffer(bodies), bodies)
    IN  /\ out = Reference(bodies)
        /\ Len(bodies) <= 1 => out = ZeroBuffer(bodies)

\* Three bodies at three places after a step, none with a zero acceleration.
C5_Witness ==
    /\ Len(bodies) = 3
    /\ k >= 1
    /\ a = Reference(bodies)
    /\ \A i \in 1..3 : a[i] # zeros
    /\ \A i \in 1..3 : \A j \in 1..3 : i # j => bodies[i].x # bodies[j].x

\* A buffer of the right shape that holds something else: the positions.
Garbage(bs) == Vec(LAMBDA i : bs[i].x, Len(bs))

\* The bodies at rest: the same masses and positions, velocities zero.
AtRest(bs) == Vec(LAMBDA i : [bs[i] EXCEPT !.v = zeros], Len(bs))

\* C6: the output of the kernel depends only on the bodies' masses and
\* positions, not on what the buffer held before the call (the previous
\* step's accelerations, zeros, anything else), and a second call in a row
\* leaves what the first left.
C6_Overwrites ==
    Started =>
        LET out == accelerations(a, bodies)
        IN  /\ out = accelerations(ZeroBuffer(bodies), bodies)
            /\ out = accelerations(Garbage(bodies), bodies)
            /\ out = accelerations(out, bodies)
            /\ out = accelerations(a, AtRest(bodies))

\* The kernel is about to be called on a buffer that holds accelerations of
\* earlier positions, different from zeros and from the positions.
C6_Witness ==
    /\ pc = "running"
    /\ k >= 1
    /\ k < nsteps
    /\ Len(bodies) >= 2
    /\ a # ZeroBuffer(bodies)
    /\ a # Garbage(bodies)
    /\ a # Prev.a

\* x + v*dt + 0.5*a_n*dt*dt, as the program evaluates it.
NewPosition(x, v, an, h) ==
    Add(x, Add(Mul(v, h), Mul(Mul(Mul(Half, an), h), h)))

\* C7: one vv_step! with buffer a_n leaves every body with position
\* x + v*dt + 0.5*a_n*dt^2, x and v being the values before the step, the
\* buffer with the kernel's result a_{n+1} at the new positions of all bodies,
\* and every body with velocity v + 0.5*(a_n + a_{n+1})*dt: the sum of the two
\* half-kicks, which in exact arithmetic is this closed form.
C7_ClosedForm ==
    (Started /\ k >= 1) =>
        /\ Cur.a = accelerations(ZeroBuffer(Cur.bodies), Cur.bodies)
        /\ \A i \in 1..Len(bodies) : \A d \in 1..NDIM :
            LET x   == Prev.bodies[i].x[d]
                v   == Prev.bodies[i].v[d]
                an  == Prev.a[i][d]
                an1 == Cur.a[i][d]
            IN  /\ Cur.bodies[i].x[d] = NewPosition(x, v, an, dt)
                /\ Cur.bodies[i].v[d] =
                       Add(Add(v, Mul(Mul(Half, an), dt)), Mul(Mul(Half, an1), dt))
                /\ arith = "exact" =>
                    /\ Cur.bodies[i].x[d] =
                           Add(Add(x, Mul(v, dt)),
                               Mul(Mul(Half, an), Mul(dt, dt)))
                    /\ Cur.bodies[i].v[d] =
                           Add(v, Mul(Mul(Half, Add(an, an1)), dt))

\* A step from a boundary where a body had a velocity and an acceleration,
\* both not zero, to new accelerations.
C7_Witness ==
    /\ Started
    /\ k >= 1
    /\ Len(bodies) >= 2
    /\ \E i \in 1..Len(bodies) : \E d \in 1..NDIM :
           /\ Prev.bodies[i].v[d] # Zero
           /\ Prev.a[i][d] # Zero
           /\ Cur.a[i][d] # Prev.a[i][d]

\* C9: the number of bodies and every body's mass never change during a run,
\* so every mass stays > 0 (a floating-point statement) as it was at setup.
C9_MassesFixed ==
    /\ Len(bodies) = Len(bodies0)
    /\ \A i \in 1..Len(bodies) :
           /\ bodies[i].m = bodies0[i].m
           /\ arith = "float" => bodies[i].m[1] > 0
    /\ \A n \in 1..Len(hist) :
           /\ Len(hist[n].bodies) = Len(bodies0)
           /\ Len(hist[n].a) = Len(bodies0)

\* A returned run of several steps in which three bodies moved.
C9_Witness ==
    /\ pc = "finished"
    /\ k >= 2
    /\ Len(bodies) = 3
    /\ \A i \in 1..3 : bodies[i].x # bodies0[i].x /\ bodies[i].v # bodies0[i].v

\* C10: total_energy changes no position, velocity, mass or acceleration: the
\* bodies and the buffer at every step boundary are those the bootstrap call
\* (k = 0) or one call of vv_step! on the boundary before (k >= 1) produces
\* and nothing else, whatever the cadence K, whether or not the energy was
\* evaluated at either boundary.
C10_EnergyReadOnly ==
    Started =>
        /\ total_energy(bodies).bodies = bodies
        /\ Len(hist) = k + 1
        /\ Cur = [bodies |-> bodies, a |-> a]
        /\ hist[1] = [bodies |-> bodies0,
                      a |-> accelerations(ZeroBuffer(bodies0), bodies0)]
        /\ k >= 1 => \E s \in { vv_step(Prev.bodies, Prev.a, dt) } :
                         Cur = [bodies |-> s.bodies, a |-> s.a]

\* A run in which the energy was evaluated after some steps and not after
\* others, the first body moving from the start.
C10_Witness ==
    /\ pc = "finished"
    /\ k = 3
    /\ output_every = 2
    /\ Len(energies) = 2
    /\ Len(bodies) >= 2
    /\ bodies0[1].v # zeros

\* The boundary reached from boundary s by n calls of vv_step! with time step
\* h, and nothing else.
RECURSIVE Replay(_, _, _)
Replay(s, n, h) ==
    IF n = 0 THEN s
    ELSE Bind(vv_step(s.bodies, s.a, h), LAMBDA s1 : Replay(s1, n - 1, h))

\* The boundary the bootstrap call makes of the bodies bs.
Boot(bs) == [bodies |-> bs, a |-> accelerations(ZeroBuffer(bs), bs)]

\* C11 as stated: the body collection passed in by the caller holds the same
\* positions and velocities after simulate! returns as before the call.
C11_CallerUnchanged ==
    pc = "finished" =>
        \A i \in 1..Len(bodies0) :
            bodies[i].x = bodies0[i].x /\ bodies[i].v = bodies0[i].v

\* C11 as amended: the body collection passed in by the caller is the one the
\* steps are made on: after simulate! returns it holds the positions and
\* velocities that N calls of vv_step! make of those it held before the call
\* (the same ones when N = 0), with the number of bodies and the masses it had.
C11_CallerAdvanced ==
    pc = "finished" =>
        /\ bodies = Replay(Boot(bodies0), nsteps, dt).bodies
        /\ nsteps = 0 => bodies = bodies0
        /\ Len(bodies) = Len(bodies0)
        /\ \A i \in 1..Len(bodies0) : bodies[i].m = bodies0[i].m

\* A returned run of several steps after which every body of the caller is
\* at another place with another velocity.
C11_Witness ==
    /\ pc = "finished"
    /\ nsteps >= 2
    /\ Len(bodies) >= 2
    /\ \A i \in 1..Len(bodies) :
           bodies[i].x # bodies0[i].x /\ bodies[i].v # bodies0[i].v

\* The pairs i < j of the bodies bs, as the two loops visit them.
Pairs(bs) == { p \in (1..Len(bs)) \X (1..Len(bs)) : p[1] < p[2] }

\* C12: with eps > 0 neither the kernel nor total_energy divides by zero (a
\* floating-point statement: both divisors are > 0), whatever the positions;
\* a pair of bodies at one place adds exactly zero to both accelerations and
\* has the finite potential term G*mi*mj/eps, which total_energy subtracts.
C12_NoDivisionByZero ==
    \A p \in Pairs(bodies) :
        LET bi == bodies[p[1]]
            bj == bodies[p[2]]
        IN  /\ arith = "float" =>
                /\ SOFTENING[1] > 0
                /\ R3(Rvec(bi.x, bj.x))[1] > 0
                /\ SoftDist(bi.x, bj.x)[1] > 0
            /\ bi.x = bj.x =>
                /\ PairForce(ZeroBuffer(bodies), bodies, p[1], p[2])
                       = ZeroBuffer(bodies)
                /\ arith = "float" =>
                       /\ PairPotential(bi, bj)
                              = Div(Mul(Mul(G, bi.m), bj.m), SOFTENING)
                       /\ Potential(Zero, <<bi, bj>>, 1, 2)
                              = Neg(Div(Mul(Mul(G, bi.m), bj.m), SOFTENING))

\* Two bodies at one place and a third elsewhere, after a step.
C12_Witness ==
    /\ arith = "float"
    /\ Started
    /\ k >= 1
    /\ Len(bodies) = 3
    /\ \E p \in Pairs(bodies) : bodies[p[1]].x = bodies[p[2]].x
    /\ \E p \in Pairs(bodies) : bodies[p[1]].x # bodies[p[2]].x
    /\ a[1] # zeros

\* C13: simulate! is only ever not started, running or finished, it makes its
\* calls of vv_step! one after the other (k counts them, hist keeps one
\* boundary per call), never more than N of them, and it has made exactly N
\* when it is finished: no run ends in any other way.
C13_ExactlyNSteps ==
    /\ pc \in {"start", "running", "finished"}
    /\ k <= nsteps
    /\ pc = "start" => k = 0 /\ hist = <<>>
    /\ pc # "start" => Len(hist) = k + 1
    /\ pc = "finished" => k = nsteps

\* The position of body i, coordinate d, in a flattened sample.
SampleAt(smp, i, d) == smp[(i - 1) * NDIM + d]

\* C14: a recorded sample is a snapshot.  No step of simulate! changes or
\* removes a sample that is already in samples (samples only grows at its
\* end), and sample j + 1 holds for every body and coordinate the position
\* the body had at the boundary after step j*K, whatever the in-place updates
\* of the position vectors have made of the bodies since.
C14_Snapshots ==
    /\ [](Started =>
            \A j \in 0..(Len(samples) - 1) :
                /\ Len(samples[j + 1]) = Len(bodies0) * NDIM
                /\ \A i \in 1..Len(bodies0) : \A d \in 1..NDIM :
                       SampleAt(samples[j + 1], i, d)
                           = hist[j * output_every + 1].bodies[i].x[d])
    /\ [][/\ Len(samples') >= Len(samples)
          /\ \A n \in 1..Len(samples) : samples'[n] = samples[n]]_vars

\* Four samples are recorded and every body is now at another place than in
\* each of the first three.
C14_Witness ==
    /\ Started
    /\ k = 3
    /\ output_every = 1
    /\ Len(samples) = 4
    /\ Len(bodies) >= 2
    /\ samples[1] = flatten(bodies0)
    /\ \A i \in 1..Len(bodies) : \A n \in 1..3 :
           bodies[i].x # <<SampleAt(samples[n], i, 1), SampleAt(samples[n], i, 2)>>

\* C16: accelerations! is called once before the loop and once in every
\* step: after k steps it has been called k + 1 times, N + 1 times when the
\* run of N steps is finished.  vv_step! makes its position update with the
\* buffer it is given, the one the previous call left, and not with
\* accelerations computed anew from the positions it starts from: given
\* another buffer it moves the bodies by that buffer.
C16_KernelCalls ==
    /\ pc = "start" => ncalls = 0
    /\ pc # "start" => ncalls = k + 1
    /\ pc = "finished" => ncalls = nsteps + 1
    /\ Started =>
          \E s \in { vv_step(bodies, Garbage(bodies), dt) } :
              /\ s.ncalls = 1
              /\ \A i \in 1..Len(bodies) : \A d \in 1..NDIM :
                     s.bodies[i].x[d] =
                         NewPosition(bodies[i].x[d], bodies[i].v[d],
                                     Garbage(bodies)[i][d], dt)
    /\ (Started /\ k >= 1) =>
          \A i \in 1..Len(bodies) : \A d \in 1..NDIM :
              Cur.bodies[i].x[d] =
                  NewPosition(Prev.bodies[i].x[d], Prev.bodies[i].v[d],
                              Prev.a[i][d], dt)

\* A finished run of three steps of several bodies whose buffer changed at
\* every step.
C16_Witness ==
    /\ pc = "finished"
    /\ nsteps = 3
    /\ ncalls = 4
    /\ Len(bodies) >= 2
    /\ \A n \in 1..3 : hist[n + 1].a # hist[n].a
    /\ a # Garbage(bodies)

\* C17: in exact arithmetic vv_step! is time-reversible.  At a step boundary
\* the buffer is the kernel's result at the positions; the step with dt that
\* led from the boundary before to this one, followed by a step with -dt,
\* gives back every position, every velocity and the buffer of the boundary
\* before, for systems of one, two and more bodies.
C17_Reversible ==
    (Started /\ arith = "exact" /\ k >= 1) =>
        \E back \in { vv_step(Cur.bodies, Cur.a, Neg(dt)) } :
            /\ back.bodies = Prev.bodies
            /\ back.a = Prev.a

\* A step of three bodies in exact arithmetic that changed every position,
\* every velocity and every acceleration.
C17_Witness ==
    /\ Started
    /\ arith = "exact"
    /\ k >= 2
    /\ Len(bodies) = 3
    /\ Prev.a = accelerations(ZeroBuffer(Prev.bodies), Prev.bodies)
    /\ \A i \in 1..3 :
           /\ Cur.bodies[i].x # Prev.bodies[i].x
           /\ Cur.bodies[i].v # Prev.bodies[i].v
           /\ Cur.a[i] # Prev.a[i]

\* n * x without rounding: the product of the integer n and the value x.
NTimes(n, x) ==
    IF arith = "exact" THEN <<(n * x[1]) % Modulus, 0>> ELSE FNorm(n * x[1], x[2])

\* The floating-point value x has at most Prec significant bits.
Fits(x) == BitLen(Abs(x[1])) <= Prec

\* x < y and x <= y for floating-point values.
Less(x, y) ==
    LET e == IF x[2] < y[2] THEN x[2] ELSE y[2]
    IN  x[1] * 2^(x[2] - e) < y[1] * 2^(y[2] - e)

LessEq(x, y) == x = y \/ Less(x, y)

\* t after n additions of dt: ((0 + dt) + dt) + ...
RECURSIVE SumDt(_)
SumDt(n) == IF n = 0 THEN Zero ELSE Bind(SumDt(n - 1), LAMBDA s : Add(s, dt))

\* C18 as stated: the first recorded time is 0, the j-th later recorded time
\* equals j*K*dt, and the recorded times are strictly increasing when dt > 0
\* (an order there is in floating point only).
C18_ExactTimes ==
    Started =>
        /\ times[1] = Zero
        /\ \A j \in 1..(Len(times) - 1) :
               /\ times[j + 1] = NTimes(j * output_every, dt)
               /\ (arith = "float" /\ dt[1] > 0) => Less(times[j], times[j + 1])

\* C18 as amended: the time is accumulated by one addition t += dt per step
\* and by nothing else.  The first recorded time is 0 and the j-th later one
\* is the result of j*K additions of dt; it equals j*K*dt in exact arithmetic
\* and, in floating point, whenever no multiple of dt up to it needs rounding.
\* For dt > 0 the recorded times never decrease, and increase strictly where
\* dt is at least one unit in the last place of the time before.
C18_AccumulatedTime ==
    Started =>
        /\ times[1] = Zero
        /\ t = SumDt(k)
        /\ \A j \in 1..(Len(times) - 1) :
               /\ times[j + 1] = SumDt(j * output_every)
               /\ arith = "exact" =>
                      times[j + 1] = NTimes(j * output_every, dt)
               /\ arith = "float" =>
                      /\ (\A n \in 1..(j * output_every) : Fits(NTimes(n, dt)))
                             => times[j + 1] = NTimes(j * output_every, dt)
                      /\ dt[1] > 0 =>
                             /\ LessEq(times[j], times[j + 1])
                             /\ (MsbPos(times[j]) - MsbPos(dt) < Prec)
                                    => Less(times[j], times[j + 1])

\* Three recorded steps in floating point with a time step whose third
\* multiple is rounded: the last recorded time is not 3*dt.
C18_Witness ==
    /\ Started
    /\ arith = "float"
    /\ k = 3
    /\ Len(times) = 4
    /\ dt # DT
    /\ times[4] # NTimes(3, dt)
    /\ times[3] = NTimes(2, dt)
    /\ Less(times[3], times[4])

\* sum over the bodies 1..i of m * x[d]
RECURSIVE MassMomentSum(_, _, _)
MassMomentSum(bs, d, i) ==
    IF i = 0 THEN Zero
    ELSE Add(MassMomentSum(bs, d, i - 1), Mul(bs[i].m, bs[i].x[d]))

\* m1*x1 + m2*x2 + ...: the centre of mass times the total mass.
MassMoment(bs) == Vec(LAMBDA d : MassMomentSum(bs, d, Len(bs)), NDIM)

\* The run started from two_body_demo().
DemoRun == Len(bodies0) = 2 /\ bodies0 = two_body_demo

\* For floating-point values: |s| <= 2^(2 - Prec) * (|u| + |w|), s being the
\* computed sum of u and w: the two cancel to within rounding.
CancelsNearly(s, u, w) ==
    IF s[1] = 0 THEN TRUE
    ELSE LET es == { x[2] : x \in { y \in {s, u, w} : y[1] # 0 } }
             e  == CHOOSE m \in es : \A n \in es : m <= n
             sc(x) == IF x[1] = 0 THEN 0 ELSE Abs(x[1]) * 2^(x[2] - e)
         IN  sc(s) * 2^Prec <= 4 * (sc(u) + sc(w))

LatestVoltage ==
    IF voltageSlider = <<>> THEN Constructed.voltage ELSE parseFloat(voltageSlider)

LatestResistance ==
    IF resistanceSlider = <<>> THEN Constructed.resistance
    ELSE parseFloat(resistanceSlider)

\* C20: once the page's start-up is over (the constructor and the first
\* updateValues), whatever slider inputs and clicks have happened: while the
\* circuit is off the current is 0 and the arrow is hidden, and while it is
\* on the arrow is shown and the current is voltage / resistance of the
\* values the sliders were last moved to.
C20_CurrentFollowsPower ==
    page = "ready" =>
        /\ sim.voltage = LatestVoltage
        /\ sim.resistance = LatestResistance
        /\ IF sim.isCircuitOn
           THEN /\ sim.current = Quotient(LatestVoltage, LatestResistance)
                /\ sim.arrowVisible
           ELSE /\ sim.current = Zero
                /\ ~sim.arrowVisible

\* The circuit is on after both sliders were moved, with a current that is
\* neither 0 nor the constructor's 12 / 6.
C20_Witness ==
    /\ page = "ready"
    /\ sim.isCircuitOn
    /\ voltageSlider = <<"2", "4">>
    /\ resistanceSlider = <<"0", ".", "5">>
    /\ sim.current # Zero
    /\ sim.current # Constructed.current
    /\ sim.arrowVisible

\* The motor is off; the wheel is at rest.
WheelOff == ~wheel.isRunning

WheelAtRest == wheel.angularVelocity = Finite(0)

\* C21, as stated: with the motor off the wheel always comes to rest, for
\* every friction of the slider (0 included) and every starting speed: the
\* speed becomes exactly 0 after finitely many frames, and stays 0 for as long
\* as the motor stays off.
C21_AlwaysComesToRest ==
    /\ WheelOff ~> (WheelAtRest \/ ~WheelOff)
    /\ [][(WheelOff /\ WheelAtRest /\ WheelOff') => WheelAtRest']_vars

\* C21, amended: with the motor off and a friction above 0, a finite speed
\* becomes exactly 0 after finitely many frames (unless the motor is switched
\* on or the friction set to 0 first), and a speed of 0 stays 0 for as long as
\* the motor stays off.  With a friction of 0 a frame leaves the speed as it
\* is, and a speed that is NaN stays NaN until the reset button is clicked.
C21_ComesToRest ==
    /\ (WheelOff /\ wheel.friction > 0 /\ ~IsNaN(wheel.angularVelocity))
          ~> (WheelAtRest \/ ~WheelOff \/ wheel.friction = 0)
    /\ [][(WheelOff /\ WheelAtRest /\ WheelOff') => WheelAtRest']_vars
    /\ [][(WheelOff /\ wheel.friction = 0 /\ wheel'.lastTime # wheel.lastTime)
             => wheel'.angularVelocity = wheel.angularVelocity]_vars
    /\ [][IsNaN(wheel.angularVelocity)
             => (IsNaN(wheel'.angularVelocity) \/ wheel' = resetClick(wheel))]_vars

\* The motor has been switched on and off again, and the wheel still turns
\* against a friction above 0.
C21_Witness ==
    /\ WheelOff
    /\ wheelClicks >= 2
    /\ wheel.friction > 0
    /\ ~IsNaN(wheel.angularVelocity)
    /\ wheel.angularVelocity.val >= RestThreshold

\* C22: on every frame, the call animate() of start-up and the frame after it
\* included, the dt handed to computePhysics is a finite number >= 0, so that
\* angularVelocity and wheel.rotation.z are finite numbers in every reachable
\* state.
C22_FiniteEveryFrame ==
    /\ \A interval \in FrameIntervals :
          \E d \in { FrameDt(wheel.lastTime, interval) } :
             ~IsNaN(d) /\ d.val >= 0
    /\ ~IsNaN(wheel.angularVelocity)
    /\ wheel.rotationZ = "number"

\* The object is less dense than the fluid.
Lighter(b) == b.objectDensity < b.fluidDensity

\* C23: getEquilibriumY returns the position where the net force is zero: for
\* a rectangle less dense than the fluid that stands at getEquilibriumY(), as
\* after resetSim or snapToEquilibrium, the submerged volume of calcPhysics
\* makes the buoyant force equal to the weight, and the frame leaves the
\* object where it is, at rest.
C23_EquilibriumIsAtRest ==
    (/\ buoy.shape = "rect"
     /\ Lighter(buoy)
     /\ ~buoy.dragging
     /\ buoy.vy = 0
     /\ buoy.y = getEquilibriumY(buoy))
    => /\ NetAccel(buoy) = 0
       /\ calcPhysics(buoy).y = buoy.y
       /\ calcPhysics(buoy).vy = 0

\* The centre of the object lies inside the canvas.
InCanvas(b) ==
    /\ HalfExtent(b) <= b.y
    /\ b.y <= CanvasHeight(b) - HalfExtent(b)

\* The frame moved the object by its speed, or left it on a bound at speed 0.
MovedOrStopped(b, c) ==
    \/ c.y = b.y + c.vy
    \/ /\ c.vy = 0
       /\ c.y \in { HalfExtent(c), CanvasHeight(c) - HalfExtent(c) }

DragStartsOnHit ==
    (~buoy.dragging /\ buoy'.dragging)
       => \E mx \in MouseXs, my \in MouseYs :
             /\ isOnObject(buoy, mx, my)
             /\ buoy' = mousedown(buoy, mx, my)

\* Dragging ends on every mouseup, reset (the shape selector's included) and
\* snap.
DragEnds ==
    (MouseUp \/ BuoyResetClick \/ ShapeChange \/ SnapClick) => ~buoy'.dragging

\* While the object is dragged a frame leaves y and vy unchanged.
DragFreezesPhysics ==
    (buoy.dragging /\ Loop) => (buoy'.y = buoy.y /\ buoy'.vy = buoy.vy)

\* While the object is dragged only mousemove changes y.
DragMovesByMouseOnly ==
    (buoy.dragging /\ buoy'.dragging /\ buoy'.y # buoy.y) => MouseMove

\* mousemove has no effect when the object is not dragged.
MoveNeedsDrag == (~buoy.dragging /\ MouseMove) => buoy' = buoy

\* C25, as stated: dragging starts only on a mousedown that hits the object
\* and ends on every mouseup, reset and snap; while state.dragging is true
\* calcPhysics leaves y and vy unchanged and only mousemove changes y, always
\* to a value in [80, canvasHeight - 80]; mousemove has no effect when not
\* dragging.
C25_DragFrame ==
    [][/\ DragStartsOnHit
       /\ DragEnds
       /\ DragFreezesPhysics
       /\ DragMovesByMouseOnly
       /\ (buoy.dragging /\ MouseMove)
             => (8000 <= buoy'.y /\ buoy'.y <= CanvasHeight(buoy) - 8000)
       /\ MoveNeedsDrag]_vars

\* C25, amended: the same, the value mousemove gives y being in
\* [80, canvasHeight - 80] on a canvas at least 160 pixels high, and 80 on a
\* lower one.
C25_DragFrameOnCanvas ==
    [][/\ DragStartsOnHit
       /\ DragEnds
       /\ DragFreezesPhysics
       /\ DragMovesByMouseOnly
       /\ (buoy.dragging /\ MouseMove)
             => IF buoy.height >= 160
                THEN 8000 <= buoy'.y /\ buoy'.y <= CanvasHeight(buoy) - 8000
                ELSE buoy'.y = 8000
       /\ MoveNeedsDrag]_vars

\* The rectangle is being dragged, and the mouse has taken it to the lowest
\* position a drag allows on a canvas more than 160 pixels high.
C25_Witness ==
    /\ buoy.dragging
    /\ buoy.shape = "rect"
    /\ buoy.height > 160
    /\ buoy.y = CanvasHeight(buoy) - 8000

\* C26: while the simulation runs, animate skips a frame only when more than
\* 100 ms have passed since the previous animation frame: a frame that comes
\* no more than 100 ms after the previous one is rendered and counted in
\* frameCount, whatever the interleaving with the stats callback.
C26_SkipsOnlyAfterPause ==
    [][\A gap \in FrameGaps :
          (/\ wire.rafPending
           /\ wire.isRunning
           /\ wire.isInitialized
           /\ gap <= wire.untilStats
           /\ wire.sinceFrame + gap <= SkipAbove
           /\ \E w \in { Advance(wire, gap) } :
                 wire' = wireAnimate(w, w.sinceReset, FALSE))
          => wire'.frameCount = wire.frameCount + 1]_vars

\* C27: if a set-up step of initialize() throws, the error is reported
\* through handleError and re-thrown, and the simulation is left not started:
\* isInitialized and isRunning are false and no animation frame is ever
\* requested; and isRunning is true only where isInitialized is true.
C27_FailedInitialize ==
    /\ wire.phase = "failed"
          => /\ wire.errorShown
             /\ wire.rejected
             /\ ~wire.isInitialized
             /\ ~wire.isRunning
             /\ ~wire.rafPending
    /\ wire.isRunning => wire.isInitialized

\* initialize() has failed in its last set-up step, the particles created.
C27_Witness ==
    /\ wire.phase = "failed"
    /\ wire.liveCount = PARTICLES_COUNT

\* C28: dispose() never throws and leaves isRunning and isInitialized false,
\* with the stats timer started by initializePerformanceMonitoring cleared;
\* after it no frame is rendered and the stats callback changes nothing.
C28_DisposeStopsEverything ==
    [][/\ Dispose => /\ ~wire'.disposeThrew
                     /\ ~wire'.isRunning
                     /\ ~wire'.isInitialized
                     /\ ~wire'.timerActive
       /\ (wire.cleanupLogged /\ wire.phase = wire'.phase)
             => /\ wire'.frameCount = wire.frameCount
                /\ wire'.particleCount = wire.particleCount
                /\ wire'.liveCount = wire.liveCount]_vars

\* C29: stats.particleCount stays within [10, 50] and is a multiple of 5; a
\* stats callback changes it by exactly 5 (down only when fps < 30, up only
\* when fps > 55) or not at all, recreates the particle system exactly when
\* the count changes; and the live particle system always has
\* stats.particleCount particles.
C29_ParticleCount ==
    /\ [](wire.hasStats
             => /\ wire.particleCount \in 10..PARTICLES_COUNT
                /\ wire.particleCount % 5 = 0
                /\ wire.liveCount = wire.particleCount)
    /\ [][(wire.hasStats /\ StatsTimer)
             => /\ \/ wire'.particleCount = wire.particleCount
                   \/ /\ wire'.particleCount = wire.particleCount - 5
                      /\ wire'.fps < 30
                   \/ /\ wire'.particleCount = wire.particleCount + 5
                      /\ wire'.fps > 55
                /\ wire'.recreated
                      <=> wire'.particleCount # wire.particleCount]_vars

\* The stats callbacks have taken the count down to its lower bound, and a
\* second of more than 55 frames has taken it up again by 5, recreating the
\* particles.
C29_Witness ==
    /\ wire.hasStats
    /\ wire.isRunning
    /\ wire.fps > 55
    /\ wire.particleCount = 15
    /\ wire.liveCount = 15
    /\ wire.recreated

====
